---- MODULE Spec2Model ----
(***************************************************************************)
(* The metrics engine of jira-operational-metrics (dataProcessor.js):      *)
(* timeline reconstruction from the audit log, the selector resolver and   *)
(* the orchestrator processMetrics with its aggregators.                   *)
(*                                                                         *)
(* Encoding of JavaScript values:                                          *)
(*   - null / undefined is the value NULL;                                 *)
(*   - a status id is a string; the number n is written "#n" and String()  *)
(*     strips the tag (Str);                                               *)
(*   - an instant is an integer number of ticks, TicksPerDay ticks to the  *)
(*     UTC day; its ISO string is IsoString(t) and new Date(s).getTime()   *)
(*     is ParseDate(s), NaN for a string that is no date.                  *)
(***************************************************************************)
EXTENDS Integers, Sequences, FiniteSets, TLC

VARIABLES
    pc,               \* "call" before the modelled function runs, "done" after
    issue,            \* buildIssueTimelineByStatus: the raw issue
    statusMasterMap,  \* the keys of the Map statusId -> {name}
    built,            \* buildIssueTimelineByStatus: its return value
    config,           \* getStatusIdsFromConfig: the selector {type, value}
    statusGroups,     \* the user's status groups
    resolved,         \* getStatusIdsFromConfig: its outcome
    issues,           \* processMetrics: the raw issues
    startDate,        \* processMetrics: first day of the reporting window
    endDate,          \* processMetrics: last day of the reporting window
    cycleStartConfig, \* processMetrics: the cycle start selector
    cycleEndConfig,   \* processMetrics: the cycle end selector
    triageConfig,     \* processMetrics: the triage selector
    allStatuses,      \* processMetrics: the statuses of the metadata
    now,              \* the instant new Date() gives during the call
    timeZone,         \* the change of the local clock in the runtime's time zone
    calls,            \* the calls of processMetrics made so far, with their results
    result,           \* the outcome of the call
    sortedArray,      \* getPercentile: the sorted numbers
    percentile,       \* getPercentile: the percentile asked for
    durationsDays,    \* processCycleTime: the durations recorded, in days
    cycleMs           \* processCycleTime: per built timeline, whether a start event and
                      \* an end event were found and the milliseconds between them

\* the arguments and the outcome of processMetrics
metricsVars == <<issues, startDate, endDate, cycleStartConfig, cycleEndConfig,
                 triageConfig, allStatuses, now, timeZone, result>>

\* the arguments of getPercentile and the durations of the histogram
statsVars == <<sortedArray, percentile, durationsDays, cycleMs>>

vars == <<pc, issue, statusMasterMap, built, config, statusGroups, resolved, metricsVars,
          statsVars, calls>>

-----------------------------------------------------------------------------
(* Bounds of the model *)

MaxTime == 3        \* audit events and creations happen at ticks 1..MaxTime
MaxHist == 2        \* histories per changelog
MaxGroups == 2      \* entries of the status group list
TicksPerDay == 24   \* resolution of the clock: ticks of one hour

-----------------------------------------------------------------------------
(* JavaScript values *)

NULL == "<null>"

NaN == -1

\* String(v)
Str(v) ==
    CASE v = NULL -> "null"
      [] v = "#1" -> "1"
      [] v = "#2" -> "2"
      [] OTHER    -> v

\* !v for the values a status id or a selector value can take
Falsy(v) == v = NULL \/ v = ""

\* Date.prototype.toISOString
IsoString(t) ==
    "D" \o ToString(t \div TicksPerDay) \o "T" \o ToString(t % TicksPerDay)

\* the instants of the model
Instants == 0 .. MaxTime * TicksPerDay

\* the date strings that parse
DateStrings == [t \in Instants |-> IsoString(t)]

\* new Date(s).getTime()
ParseDate(s) ==
    IF \E t \in Instants : DateStrings[t] = s
    THEN CHOOSE t \in Instants : DateStrings[t] = s
    ELSE NaN

-----------------------------------------------------------------------------
(* JavaScript arrays and Maps *)

\* an argument that is an array; Array.isArray(a) is a.isArray
JsArray(items) == [isArray |-> TRUE, items |-> items]
\* an argument that is no array
NotAnArray == [isArray |-> FALSE, items |-> <<>>]

\* A Map is the sequence of its entries [key, value] in insertion order.
MapHas(map, k) == \E n \in 1..Len(map) : map[n].key = k
MapGet(map, k) == map[CHOOSE n \in 1..Len(map) : map[n].key = k].value
MapSet(map, k, v) ==
    IF MapHas(map, k)
    THEN [n \in 1..Len(map) |-> IF map[n].key = k THEN [key |-> k, value |-> v] ELSE map[n]]
    ELSE Append(map, [key |-> k, value |-> v])
MapKeys(map) == {map[n].key : n \in 1..Len(map)}

\* an entry {id, name} of allStatuses
Status(id, name) == [isNull |-> FALSE, id |-> id, name |-> name]

RECURSIVE SetStatuses(_, _)
\* allStatuses.forEach(s => { if (s && s.id != null) statusMasterMap.set(...) })
SetStatuses(map, statuses) ==
    IF statuses = <<>> THEN map
    ELSE LET st == Head(statuses) IN
         IF ~st.isNull /\ st.id # NULL
         THEN SetStatuses(
                  MapSet(map, Str(st.id),
                         [name |-> IF Falsy(st.name) THEN "Status " \o Str(st.id) ELSE st.name]),
                  Tail(statuses))
         ELSE SetStatuses(map, Tail(statuses))

\* const statusMasterMap = new Map(); allStatuses.forEach(...)
StatusMasterMap(statuses) == SetStatuses(<<>>, statuses)

-----------------------------------------------------------------------------
(* Numbers: a JavaScript number that is no integer is the reduced fraction   *)
(* [num, den]; the rounding of floating point arithmetic is not modelled.   *)

RECURSIVE GCD(_, _)
GCD(a, b) == IF b = 0 THEN a ELSE GCD(b, a % b)

Frac(n, d) == LET g == GCD(n, d) IN [num |-> n \div g, den |-> d \div g]
Zero == Frac(0, 1)
FracLeq(a, b) == a.num * b.den <= b.num * a.den
FracLess(a, b) == a.num * b.den < b.num * a.den
FracAdd(a, b) == Frac(a.num * b.den + b.num * a.den, a.den * b.den)
FracDiv(a, n) == Frac(a.num, a.den * n)
FracTimes(a, n) == Frac(a.num * n, a.den)
\* Math.floor(a / b)
FloorDiv(a, b) == (a.num * b.den) \div (a.den * b.num)

RECURSIVE SumFracs(_)
\* arr.reduce((a, b) => a + b, 0)
SumFracs(arr) == IF arr = <<>> THEN Zero ELSE FracAdd(Head(arr), SumFracs(Tail(arr)))

-----------------------------------------------------------------------------
(* Date helpers: getDuration, getPercentile, getDateRange *)

\* (1000 * 60 * 60 * 24) / (1000 * 60 * 60)
HoursPerDay == (1000 * 60 * 60 * 24) \div (1000 * 60 * 60)

getDuration(startTime, endTime, unit) ==
    LET diffMs == endTime - startTime IN
    IF diffMs <= 0 THEN Zero
    ELSE CASE unit = "ms"    -> Frac(diffMs, 1)
           [] unit = "hours" -> Frac(diffMs * HoursPerDay, TicksPerDay)
           [] OTHER          -> Frac(diffMs, TicksPerDay)

\* Math.ceil(a / b) for naturals
CeilDiv(a, b) == (a + b - 1) \div b

\* getPercentile with the rank rounded down instead of up
getPercentileRoundedDown(sorted, p) ==
    IF Len(sorted) = 0 THEN Zero
    ELSE LET index == ((p * Len(sorted)) \div 100) - 1
         IN  sorted[(IF index > 0 THEN index ELSE 0) + 1]

getPercentile(sorted, p) ==
    IF Len(sorted) = 0 THEN Zero
    ELSE LET index == CeilDiv(p * Len(sorted), 100) - 1
         IN  sorted[(IF index > 0 THEN index ELSE 0) + 1]

\* the date string YYYY-MM-DD of a day
DayString(d) == "D" \o ToString(d)

\* date.toISOString().split('T')[0]
IsoDay(t) == DayString(t \div TicksPerDay)

\* the safety break of getDateRange
MaxRangeDays == 1000

\* the days of the reporting windows
Days == 0 .. MaxTime

\* the days around the safety break
FarDays == (MaxRangeDays - 1) .. (MaxRangeDays + 1)

\* the day strings that parse
DayStrings == [d \in Days \cup FarDays |-> DayString(d)]

\* new Date(dayStr).getTime(): midnight UTC of the day
ParseDay(str) ==
    IF \E d \in Days \cup FarDays : DayStrings[d] = str
    THEN (CHOOSE d \in Days \cup FarDays : DayStrings[d] = str) * TicksPerDay
    ELSE NaN

\* The time zone of the runtime: setDate and getDate work on local time.
\* During the local day that begins at midnight UTC of changeDay the local
\* clock is put forward (shift 1) or back (shift -1) by an hour, so that
\* this local day lasts 23 or 25 hours; no day does in NoClockChange.
NoClockChange == [changeDay |-> -1, shift |-> 0]
ClockChange(day, shift) == [changeDay |-> day, shift |-> shift]

\* an hour, in ticks
TicksPerHour == TicksPerDay \div HoursPerDay

\* currentDate.setDate(currentDate.getDate() + 1): the same local time on
\* the next local day
NextLocalDay(currentDate, zone) ==
    currentDate + TicksPerDay
        - (IF currentDate = zone.changeDay * TicksPerDay
           THEN zone.shift * TicksPerHour ELSE 0)

\* one pass of the while loop of getDateRange, on the state of the loop:
\* the array, the current date, and whether the loop has been left
DateStep(loop, end, zone) ==
    IF loop.left THEN loop
    ELSE IF loop.currentDate <= end
         THEN LET pushed == Append(loop.dateArray, IsoDay(loop.currentDate)) IN
              IF Len(pushed) > MaxRangeDays
              THEN [dateArray |-> <<>>, currentDate |-> loop.currentDate, left |-> TRUE]
              ELSE [dateArray |-> pushed,
                    currentDate |-> NextLocalDay(loop.currentDate, zone),
                    left |-> FALSE]
    ELSE [loop EXCEPT !.left = TRUE]

RECURSIVE DateLoop(_, _, _, _)
\* at most `passes` passes of the while loop of getDateRange
DateLoop(loop, passes, end, zone) ==
    IF loop.left \/ passes = 0 THEN loop
    ELSE IF passes = 1 THEN DateStep(loop, end, zone)
    ELSE DateLoop(DateLoop(loop, passes \div 2, end, zone),
                  passes - passes \div 2, end, zone)

\* the while loop of getDateRange: every pass but the last adds a day to the
\* array, and the pass that adds the day after MaxRangeDays days returns
WhileLoop(start, end, zone) ==
    DateLoop([dateArray |-> <<>>, currentDate |-> start, left |-> FALSE],
             MaxRangeDays + 1, end, zone)

getDateRange(startDateStr, endDateStr, zone) ==
    LET start == ParseDay(startDateStr)
        end == ParseDay(endDateStr)
    IN  IF start = NaN \/ end = NaN \/ start > end THEN <<>>
        ELSE WhileLoop(start, end, zone).dateArray

-----------------------------------------------------------------------------
(* buildIssueTimelineByStatus *)

\* the result null, in the shape of a result
NullTimeline == [ok |-> FALSE, key |-> NULL, timeline |-> <<>>, currentStatusId |-> NULL]

\* the filter on the items of a history
IsStatusChangeItem(item) ==
    /\ item.field = "status"
    /\ item.from # NULL
    /\ item.fromString # NULL

RECURSIVE MapItems(_, _)
\* items.filter(...).map(...).filter(Boolean) of one history
MapItems(items, created) ==
    IF items = <<>> THEN <<>>
    ELSE LET item == Head(items)
             changeTimestamp == ParseDate(created)
             rest == MapItems(Tail(items), created)
         IN  IF IsStatusChangeItem(item) /\ changeTimestamp # NaN
             THEN <<[timestamp |-> changeTimestamp,
                     fromId |-> Str(item.from),
                     toId |-> Str(item.to)]>> \o rest
             ELSE rest

RECURSIVE FlatMapHistories(_)
\* histories.flatMap(history => ...)
FlatMapHistories(histories) ==
    IF histories = <<>> THEN <<>>
    ELSE MapItems(Head(histories).items, Head(histories).created)
            \o FlatMapHistories(Tail(histories))

RECURSIVE InsertByTimestamp(_, _)
\* e placed behind every element that does not come after it
InsertByTimestamp(sorted, e) ==
    IF sorted = <<>> THEN <<e>>
    ELSE IF Head(sorted).timestamp - e.timestamp <= 0
         THEN <<Head(sorted)>> \o InsertByTimestamp(Tail(sorted), e)
         ELSE <<e>> \o sorted

RECURSIVE SortByTimestamp(_)
\* .sort((a, b) => a.timestamp.getTime() - b.timestamp.getTime()), a stable sort
SortByTimestamp(s) ==
    IF s = <<>> THEN <<>>
    ELSE InsertByTimestamp(SortByTimestamp(SubSeq(s, 1, Len(s) - 1)), s[Len(s)])

\* const statusChanges = hasChangelog ? ... : []
StatusChanges(i) ==
    IF i.hasChangelog THEN SortByTimestamp(FlatMapHistories(i.histories)) ELSE <<>>

\* CreatedStatusId taking the issue's current status even when changes exist
CreatedStatusIdCurrent(statusChanges, i) ==
    IF ~Falsy(i.statusId) THEN Str(i.statusId) ELSE NULL

\* let createdStatusId = ...
CreatedStatusId(statusChanges, i) ==
    IF Len(statusChanges) > 0 THEN statusChanges[1].fromId
    ELSE IF ~Falsy(i.statusId) THEN Str(i.statusId)
    ELSE NULL

\* AddsEntry without the check that the status is known
AddsEntryUnknown(nextStatusId, lastAddedStatusId, masterMap) ==
    /\ ~Falsy(nextStatusId)
    /\ nextStatusId # lastAddedStatusId

\* AddsEntry without the comparison with the last recorded status
AddsEntryRepeated(nextStatusId, lastAddedStatusId, masterMap) ==
    /\ ~Falsy(nextStatusId)
    /\ MapHas(masterMap, nextStatusId)

\* the condition under which a change is pushed on the timeline
AddsEntry(nextStatusId, lastAddedStatusId, masterMap) ==
    /\ ~Falsy(nextStatusId)
    /\ MapHas(masterMap, nextStatusId)
    /\ nextStatusId # lastAddedStatusId

\* the entry pushed for a change
ChangeEntry(change, nextStatusId) ==
    [timestamp |-> change.timestamp, statusId |-> nextStatusId]

RECURSIVE ForEachChange(_, _, _, _)
\* statusChanges.forEach((change) => ...)
ForEachChange(timeline, lastAddedStatusId, statusChanges, masterMap) ==
    IF statusChanges = <<>> THEN timeline
    ELSE LET change == Head(statusChanges)
             nextStatusId == IF ~Falsy(change.toId) THEN Str(change.toId) ELSE NULL
         IN  IF AddsEntry(nextStatusId, lastAddedStatusId, masterMap)
             THEN ForEachChange(Append(timeline, ChangeEntry(change, nextStatusId)),
                                nextStatusId, Tail(statusChanges), masterMap)
             ELSE ForEachChange(timeline, lastAddedStatusId, Tail(statusChanges), masterMap)

\* CreationEntry dated at the epoch instead of the creation date
CreationEntryEpoch(createdDate, createdStatusId) ==
    [timestamp |-> 0, statusId |-> createdStatusId]

\* the creation event
CreationEntry(createdDate, createdStatusId) ==
    [timestamp |-> createdDate, statusId |-> createdStatusId]

buildIssueTimelineByStatus(i, masterMap) ==
    IF Falsy(i.created) THEN NullTimeline
    ELSE LET createdDate == ParseDate(i.created) IN
         IF createdDate = NaN THEN NullTimeline
         ELSE LET statusChanges == StatusChanges(i)
                  createdStatusId == CreatedStatusId(statusChanges, i)
              IN  IF Falsy(createdStatusId) \/ ~MapHas(masterMap, createdStatusId)
                  THEN NullTimeline
                  ELSE [ok |-> TRUE,
                        key |-> i.key,
                        timeline |-> ForEachChange(
                            <<CreationEntry(createdDate, createdStatusId)>>,
                            createdStatusId, statusChanges, masterMap),
                        currentStatusId |->
                            IF ~Falsy(i.statusId) THEN Str(i.statusId) ELSE NULL]

-----------------------------------------------------------------------------
(* getStatusIdsFromConfig *)

\* an entry of statusGroups: an object {name, statuses}, or null
GroupEntry(name, statuses) ==
    [isNull |-> FALSE, name |-> name, statusesIsArray |-> TRUE, statuses |-> statuses]
\* an object whose statuses is no array
GroupWithoutStatuses(name) ==
    [isNull |-> FALSE, name |-> name, statusesIsArray |-> FALSE, statuses |-> <<>>]
NullGroup ==
    [isNull |-> TRUE, name |-> NULL, statusesIsArray |-> FALSE, statuses |-> <<>>]

NotFound == [threw |-> FALSE, found |-> FALSE, group |-> NullGroup]

RECURSIVE Find(_, _)
\* statusGroups.find(g => g.name === config.value); reading .name of a null
\* entry throws a TypeError
Find(groups, value) ==
    IF groups = <<>> THEN NotFound
    ELSE LET g == Head(groups) IN
         IF g.isNull THEN [threw |-> TRUE, found |-> FALSE, group |-> NullGroup]
         ELSE IF g.name = value THEN [threw |-> FALSE, found |-> TRUE, group |-> g]
         ELSE Find(Tail(groups), value)

\* GroupStatusIds without the check against the status map
GroupStatusIdsUnchecked(group, statusesMap) ==
    {Str(group.statuses[k]) : k \in 1..Len(group.statuses)}

\* group.statuses.forEach(id => { if (statusesMap.has(String(id))) ids.add(String(id)) })
GroupStatusIds(group, statusesMap) ==
    {id \in {Str(group.statuses[k]) : k \in 1..Len(group.statuses)} : MapHas(statusesMap, id)}

getStatusIdsFromConfig(cfg, groups, statusesMap) ==
    IF Falsy(cfg.value) THEN [threw |-> FALSE, ids |-> {}]
    ELSE IF cfg.type = "group"
         THEN LET f == Find(groups.items, cfg.value) IN
              IF f.threw THEN [threw |-> TRUE, ids |-> {}]
              ELSE IF f.found /\ f.group.statusesIsArray
                   THEN [threw |-> FALSE, ids |-> GroupStatusIds(f.group, statusesMap)]
                   ELSE [threw |-> FALSE, ids |-> {}]
    ELSE IF cfg.type = "status"
         THEN LET statusId == Str(cfg.value) IN
              [threw |-> FALSE,
               ids |-> IF MapHas(statusesMap, statusId) THEN {statusId} ELSE {}]
    ELSE [threw |-> FALSE, ids |-> {}]

-----------------------------------------------------------------------------
(* processMetrics: the lookup maps and the timelines *)

NoLookups == [groupOrder |-> <<>>, initialGroupCounters |-> <<>>, statusToGroupMap |-> <<>>]

Includes(arr, x) == \E n \in 1..Len(arr) : arr[n] = x

\* a status stays in the first group that lists it
SetGroupStatusesKeepFirst(map, statuses, name, masterMap) ==
    LET set[n \in 0..Len(statuses)] ==
            IF n = 0 THEN map
            ELSE IF /\ statuses[n] # NULL
                    /\ MapHas(masterMap, Str(statuses[n]))
                    /\ ~MapHas(set[n - 1], Str(statuses[n]))
                 THEN MapSet(set[n - 1], Str(statuses[n]), name)
                 ELSE set[n - 1]
    IN  set[Len(statuses)]

RECURSIVE SetGroupStatuses(_, _, _, _)
\* group.statuses.forEach((statusId) => { ... statusToGroupMap.set(String(statusId), group.name) })
SetGroupStatuses(map, statuses, name, masterMap) ==
    IF statuses = <<>> THEN map
    ELSE LET statusId == Head(statuses) IN
         IF statusId # NULL /\ MapHas(masterMap, Str(statusId))
         THEN SetGroupStatuses(MapSet(map, Str(statusId), name), Tail(statuses), name, masterMap)
         ELSE SetGroupStatuses(map, Tail(statuses), name, masterMap)

RECURSIVE ForEachGroup(_, _, _)
\* statusGroups.forEach((group) => { if (group?.name && Array.isArray(group.statuses)) ... })
ForEachGroup(acc, groups, masterMap) ==
    IF groups = <<>> THEN acc
    ELSE LET group == Head(groups) IN
         IF ~group.isNull /\ ~Falsy(group.name) /\ group.statusesIsArray
         THEN ForEachGroup(
                  [groupOrder |->
                       IF Includes(acc.groupOrder, group.name) THEN acc.groupOrder
                       ELSE Append(acc.groupOrder, group.name),
                   initialGroupCounters |-> MapSet(acc.initialGroupCounters, group.name, 0),
                   statusToGroupMap |->
                       SetGroupStatuses(acc.statusToGroupMap, group.statuses,
                                        group.name, masterMap)],
                  Tail(groups), masterMap)
         ELSE ForEachGroup(acc, Tail(groups), masterMap)

\* groupOrder, initialGroupCounters and statusToGroupMap
Lookups(groups, masterMap) == ForEachGroup(NoLookups, groups, masterMap)

\* the timelines of all the issues, a null one kept
AllIssueTimelinesUnfiltered(issueList, masterMap) ==
    [n \in 1..Len(issueList) |-> buildIssueTimelineByStatus(issueList[n], masterMap)]

\* issues.map((issue) => buildIssueTimelineByStatus(issue, statusMasterMap)).filter(Boolean)
AllIssueTimelines(issueList, masterMap) ==
    SelectSeq([n \in 1..Len(issueList) |-> buildIssueTimelineByStatus(issueList[n], masterMap)],
              LAMBDA t : t.ok)

-----------------------------------------------------------------------------
(* The order of the by-status tables *)

\* the strings that name statuses and groups, in the order of localeCompare
Collation == <<"Done", "G", "H", "Open", "Status 3", "Work", "ZZZ">>

\* a.localeCompare(b)
LocaleCompare(a, b) ==
    (CHOOSE n \in 1..Len(Collation) : Collation[n] = a)
        - (CHOOSE n \in 1..Len(Collation) : Collation[n] = b)

\* statusToGroupMap.get(id) || 'ZZZ'
GroupOrZZZ(statusToGroupMap, id) ==
    IF MapHas(statusToGroupMap, id) /\ ~Falsy(MapGet(statusToGroupMap, id))
    THEN MapGet(statusToGroupMap, id) ELSE "ZZZ"

\* the comparator of the by-status tables: by group, then by name
CompareStatusRows(a, b, statusToGroupMap) ==
    LET byGroup == LocaleCompare(GroupOrZZZ(statusToGroupMap, a.id),
                                 GroupOrZZZ(statusToGroupMap, b.id))
    IN  IF byGroup # 0 THEN byGroup ELSE LocaleCompare(a.name, b.name)

RECURSIVE InsertStatusRow(_, _, _)
InsertStatusRow(sorted, row, statusToGroupMap) ==
    IF sorted = <<>> THEN <<row>>
    ELSE IF CompareStatusRows(Head(sorted), row, statusToGroupMap) <= 0
         THEN <<Head(sorted)>> \o InsertStatusRow(Tail(sorted), row, statusToGroupMap)
         ELSE <<row>> \o sorted

RECURSIVE SortStatusRows(_, _)
\* .sort((a, b) => ...), a stable sort
SortStatusRows(rows, statusToGroupMap) ==
    IF rows = <<>> THEN <<>>
    ELSE InsertStatusRow(SortStatusRows(SubSeq(rows, 1, Len(rows) - 1), statusToGroupMap),
                         rows[Len(rows)], statusToGroupMap)

-----------------------------------------------------------------------------
(* calculateDistributionDetailed *)

RECURSIVE CountCurrent(_, _)
\* the number of issues whose current status id is statusId
CountCurrent(issueList, statusId) ==
    IF issueList = <<>> THEN 0
    ELSE (IF Head(issueList).statusId # NULL /\ Str(Head(issueList).statusId) = statusId
          THEN 1 ELSE 0)
         + CountCurrent(Tail(issueList), statusId)

\* count / totalIssues * 100, 0 without issues
Percentage(count, totalIssues) ==
    IF totalIssues > 0 THEN Frac(count * 100, totalIssues) ELSE Zero

RECURSIVE AddToGroups(_, _, _, _)
\* rows.forEach(statusData => { ... counters.set(groupName, counters.get(groupName) + amount) })
AddToGroups(counters, rows, field, statusToGroupMap) ==
    IF rows = <<>> THEN counters
    ELSE LET statusData == Head(rows)
             hasGroup == MapHas(statusToGroupMap, statusData.id)
             groupName == IF hasGroup THEN MapGet(statusToGroupMap, statusData.id) ELSE NULL
         IN  IF hasGroup /\ ~Falsy(groupName) /\ MapHas(counters, groupName)
             THEN AddToGroups(MapSet(counters, groupName,
                                     MapGet(counters, groupName) + statusData[field]),
                              Tail(rows), field, statusToGroupMap)
             ELSE AddToGroups(counters, Tail(rows), field, statusToGroupMap)

calculateDistributionDetailed(issueList, masterMap, statusToGroupMap, initialGroupCounters) ==
    LET totalIssues == Len(issueList)
        rows == [n \in 1..Len(masterMap) |->
                    LET count == CountCurrent(issueList, masterMap[n].key) IN
                    [id |-> masterMap[n].key,
                     name |-> masterMap[n].value.name,
                     count |-> count,
                     percentage |-> Percentage(count, totalIssues)]]
        distributionByStatus ==
            SortStatusRows(
                SelectSeq(rows, LAMBDA r : r.count > 0 \/ MapHas(statusToGroupMap, r.id)),
                statusToGroupMap)
        groupCounters ==
            AddToGroups(initialGroupCounters, distributionByStatus, "count", statusToGroupMap)
    IN  [byStatus |-> distributionByStatus,
         byGroup |-> [n \in 1..Len(groupCounters) |->
                         [name |-> groupCounters[n].key,
                          count |-> groupCounters[n].value,
                          percentage |-> Percentage(groupCounters[n].value, totalIssues)]]]

-----------------------------------------------------------------------------
(* calculateTimeInStatusDetailed *)

\* the milliseconds one timeline spent in statusId, every interval added as
\* it is, a negative one too
TimelineMsSigned(timeline, statusId, nowDate) ==
    LET spent(n) ==
            IF timeline[n].statusId = statusId
            THEN (IF n + 1 <= Len(timeline) THEN timeline[n + 1].timestamp ELSE nowDate)
                     - timeline[n].timestamp
            ELSE 0
        sum[n \in 0..Len(timeline)] == IF n = 0 THEN 0 ELSE sum[n - 1] + spent(n)
    IN  sum[Len(timeline)]

\* the milliseconds one timeline spent in statusId; the last entry lasts until nowDate
TimelineMs(timeline, statusId, nowDate) ==
    LET spent(n) ==
            IF timeline[n].statusId = statusId
            THEN LET durationMs ==
                         getDuration(timeline[n].timestamp,
                                     IF n + 1 <= Len(timeline)
                                     THEN timeline[n + 1].timestamp ELSE nowDate,
                                     "ms").num
                 IN  IF durationMs > 0 THEN durationMs ELSE 0
            ELSE 0
        sum[n \in 0..Len(timeline)] == IF n = 0 THEN 0 ELSE sum[n - 1] + spent(n)
    IN  sum[Len(timeline)]

RECURSIVE TotalMs(_, _, _)
\* allIssueTimelines.forEach(({ timeline }) => { ... current.totalMs += durationMs })
TotalMs(timelines, statusId, nowDate) ==
    IF timelines = <<>> THEN 0
    ELSE TimelineMs(Head(timelines).timeline, statusId, nowDate)
            + TotalMs(Tail(timelines), statusId, nowDate)

\* totalMs, totalHours, totalDays, avgHours and avgDays of a row
TimeFields(totalMs, totalIssues) ==
    [totalMs |-> totalMs,
     totalHours |-> IF totalMs > 0 THEN Frac(totalMs * HoursPerDay, TicksPerDay) ELSE Zero,
     totalDays |-> IF totalMs > 0 THEN Frac(totalMs, TicksPerDay) ELSE Zero,
     avgHours |-> IF totalIssues > 0 /\ totalMs > 0
                  THEN Frac(totalMs * HoursPerDay, TicksPerDay * totalIssues) ELSE Zero,
     avgDays |-> IF totalIssues > 0 /\ totalMs > 0
                 THEN Frac(totalMs, TicksPerDay * totalIssues) ELSE Zero]

calculateTimeInStatusDetailed(timelines, masterMap, statusToGroupMap, initialGroupCounters, nowDate) ==
    LET totalIssues == Len(timelines)
        rows == [n \in 1..Len(masterMap) |->
                    LET t == TimeFields(TotalMs(timelines, masterMap[n].key, nowDate),
                                        totalIssues) IN
                    [id |-> masterMap[n].key,
                     name |-> masterMap[n].value.name,
                     totalMs |-> t.totalMs, totalHours |-> t.totalHours,
                     totalDays |-> t.totalDays,
                     avgHours |-> t.avgHours, avgDays |-> t.avgDays]]
        timeInStatusByStatus ==
            SortStatusRows(
                SelectSeq(rows, LAMBDA r : r.totalMs > 0 \/ MapHas(statusToGroupMap, r.id)),
                statusToGroupMap)
        timeInGroupMsAgg ==
            AddToGroups(initialGroupCounters, timeInStatusByStatus, "totalMs", statusToGroupMap)
    IN  [byStatus |-> timeInStatusByStatus,
         byGroup |-> [n \in 1..Len(timeInGroupMsAgg) |->
                         LET t == TimeFields(timeInGroupMsAgg[n].value, totalIssues) IN
                         [groupName |-> timeInGroupMsAgg[n].key,
                          totalMs |-> t.totalMs, totalHours |-> t.totalHours,
                          totalDays |-> t.totalDays,
                          avgHours |-> t.avgHours, avgDays |-> t.avgDays]]]

-----------------------------------------------------------------------------
(* processCycleTime *)

defaultResult == [durations |-> <<>>, histogram |-> <<>>, avg |-> Zero, p50 |-> Zero, p85 |-> Zero]

\* timeline.find(e => ids.has(e.statusId)): its position, 0 for undefined
FindIn(timeline, ids) ==
    IF \E n \in 1..Len(timeline) : timeline[n].statusId \in ids
    THEN CHOOSE n \in 1..Len(timeline) :
            /\ timeline[n].statusId \in ids
            /\ \A k \in 1..(n - 1) : timeline[k].statusId \notin ids
    ELSE 0

\* FindEndEvent without the comparison of the timestamps
FindEndEventAnyTime(timeline, endStatusIds, startEvent) ==
    IF startEvent # 0 THEN FindIn(timeline, endStatusIds) ELSE 0

\* timeline.find(e => endStatusIds.has(e.statusId) && startEvent &&
\*               e.timestamp.getTime() >= startEvent.timestamp.getTime())
FindEndEvent(timeline, endStatusIds, startEvent) ==
    LET fits(n) == /\ timeline[n].statusId \in endStatusIds
                   /\ startEvent # 0
                   /\ timeline[n].timestamp >= timeline[startEvent].timestamp
    IN  IF \E n \in 1..Len(timeline) : fits(n)
        THEN CHOOSE n \in 1..Len(timeline) : fits(n) /\ \A k \in 1..(n - 1) : ~fits(k)
        ELSE 0

RECURSIVE CycleDurations(_, _, _)
\* allIssueTimelines.forEach(({ timeline }) => { ... durationsDays.push(duration) })
CycleDurations(timelines, startStatusIds, endStatusIds) ==
    IF timelines = <<>> THEN <<>>
    ELSE LET timeline == Head(timelines).timeline
             startEvent == FindIn(timeline, startStatusIds)
             endEvent == FindEndEvent(timeline, endStatusIds, startEvent)
             rest == CycleDurations(Tail(timelines), startStatusIds, endStatusIds)
         IN  IF startEvent # 0 /\ endEvent # 0
             THEN <<getDuration(timeline[startEvent].timestamp,
                                timeline[endEvent].timestamp, "days")>> \o rest
             ELSE rest

RECURSIVE InsertNumber(_, _)
InsertNumber(sorted, x) ==
    IF sorted = <<>> THEN <<x>>
    ELSE IF FracLeq(Head(sorted), x) THEN <<Head(sorted)>> \o InsertNumber(Tail(sorted), x)
         ELSE <<x>> \o sorted

RECURSIVE SortNumbers(_)
\* durationsDays.sort((a, b) => a - b)
SortNumbers(arr) ==
    IF arr = <<>> THEN <<>>
    ELSE InsertNumber(SortNumbers(SubSeq(arr, 1, Len(arr) - 1)), arr[Len(arr)])

\* BucketSize with the width 1 whatever the longest duration
BucketSizeOne(maxDuration) == Frac(1, 1)

\* the width of the histogram buckets
BucketSize(maxDuration) ==
    IF FracLess(Frac(100, 1), maxDuration) THEN Frac(10, 1)
    ELSE IF FracLess(Frac(20, 1), maxDuration) THEN Frac(2, 1)
    ELSE IF FracLess(Frac(10, 1), maxDuration) THEN Frac(1, 1)
    ELSE IF FracLess(Frac(1, 1), maxDuration) THEN Frac(1, 2)
    ELSE Frac(1, 10)

\* rangeFormat: num.toString() for an integer, num.toFixed(1) otherwise
RangeFormat(x) ==
    IF x.den = 1 THEN ToString(x.num)
    ELSE LET tenths == (x.num * 10) \div x.den IN
         ToString(tenths \div 10) \o "." \o ToString(tenths % 10)

\* the start of the bucket of a duration
BucketStart(duration, bucketSize) == FracTimes(bucketSize, FloorDiv(duration, bucketSize))

BucketName(duration, bucketSize) ==
    LET bucketStart == BucketStart(duration, bucketSize) IN
    RangeFormat(bucketStart) \o "-" \o RangeFormat(FracAdd(bucketStart, bucketSize)) \o " days"

RECURSIVE CountBuckets(_, _, _)
\* durationsDays.forEach(duration => { ... buckets.set(bucketName, (buckets.get(bucketName) || 0) + 1) })
CountBuckets(buckets, durations, bucketSize) ==
    IF durations = <<>> THEN buckets
    ELSE LET bucketName == BucketName(Head(durations), bucketSize) IN
         CountBuckets(
             MapSet(buckets, bucketName,
                    (IF MapHas(buckets, bucketName) THEN MapGet(buckets, bucketName) ELSE 0) + 1),
             Tail(durations), bucketSize)

\* parseFloat(range.split('-')[0]) of the name of a bucket of these durations
RangeStart(range, durations, bucketSize) ==
    BucketStart(durations[CHOOSE n \in 1..Len(durations) :
                              BucketName(durations[n], bucketSize) = range], bucketSize)

RECURSIVE InsertBucket(_, _, _, _)
InsertBucket(sorted, b, durations, bucketSize) ==
    IF sorted = <<>> THEN <<b>>
    ELSE IF FracLeq(RangeStart(Head(sorted).range, durations, bucketSize),
                    RangeStart(b.range, durations, bucketSize))
         THEN <<Head(sorted)>> \o InsertBucket(Tail(sorted), b, durations, bucketSize)
         ELSE <<b>> \o sorted

RECURSIVE SortBuckets(_, _, _)
\* .sort((a, b) => parseFloat(a.range.split('-')[0]) - parseFloat(b.range.split('-')[0]))
SortBuckets(arr, durations, bucketSize) ==
    IF arr = <<>> THEN <<>>
    ELSE InsertBucket(SortBuckets(SubSeq(arr, 1, Len(arr) - 1), durations, bucketSize),
                      arr[Len(arr)], durations, bucketSize)

\* the statistics of a non-empty list of durations
CycleTimeStats(unsorted) ==
    LET sortedDays == SortNumbers(unsorted)
        maxDuration == sortedDays[Len(sortedDays)]
        bucketSize == BucketSize(maxDuration)
        buckets == CountBuckets(<<>>, sortedDays, bucketSize)
    IN  [durations |-> sortedDays,
         histogram |->
             SortBuckets([n \in 1..Len(buckets) |->
                             [range |-> buckets[n].key, count |-> buckets[n].value]],
                         sortedDays, bucketSize),
         avg |-> FracDiv(SumFracs(sortedDays), Len(sortedDays)),
         p50 |-> getPercentile(sortedDays, 50),
         p85 |-> getPercentile(sortedDays, 85)]

\* A function that resolves selectors returns [threw, value]: threw when
\* getStatusIdsFromConfig threw, which ends the function and its callers.
Threw == [threw |-> TRUE, value |-> <<>>]
Returned(v) == [threw |-> FALSE, value |-> v]

\* the test for unresolved selectors of processCycleTime
CycleTimeUnresolved(startStatusIds, endStatusIds) ==
    startStatusIds = {} \/ endStatusIds = {}

processCycleTime(timelines, cycleStart, cycleEnd, groups, masterMap) ==
    LET startStatusIds == getStatusIdsFromConfig(cycleStart, groups, masterMap)
        endStatusIds == getStatusIdsFromConfig(cycleEnd, groups, masterMap)
    IN  IF startStatusIds.threw \/ endStatusIds.threw THEN Threw
        ELSE IF CycleTimeUnresolved(startStatusIds.ids, endStatusIds.ids)
             THEN Returned(defaultResult)
        ELSE LET recorded ==
                     CycleDurations(timelines, startStatusIds.ids, endStatusIds.ids)
             IN  IF Len(recorded) = 0 THEN Returned(defaultResult)
                 ELSE Returned(CycleTimeStats(recorded))

-----------------------------------------------------------------------------
(* processThroughput *)

RECURSIVE CompletionTimestamps(_, _)
\* allIssueTimelines.forEach(({ timeline }) => { ... completionTimestamps.push(endEvent.timestamp) })
CompletionTimestamps(timelines, endStatusIds) ==
    IF timelines = <<>> THEN <<>>
    ELSE LET timeline == Head(timelines).timeline
             endEvent == FindIn(timeline, endStatusIds)
             rest == CompletionTimestamps(Tail(timelines), endStatusIds)
         IN  IF endEvent # 0 /\ timeline[endEvent].timestamp # NaN
             THEN <<timeline[endEvent].timestamp>> \o rest
             ELSE rest

RECURSIVE CountDays(_, _)
\* completionTimestamps.forEach(date => { ... throughputMap.set(day, throughputMap.get(day) + 1) })
CountDays(throughputMap, completionTimestamps) ==
    IF completionTimestamps = <<>> THEN throughputMap
    ELSE LET day == IsoDay(Head(completionTimestamps)) IN
         IF MapHas(throughputMap, day)
         THEN CountDays(MapSet(throughputMap, day, MapGet(throughputMap, day) + 1),
                        Tail(completionTimestamps))
         ELSE CountDays(throughputMap, Tail(completionTimestamps))

RECURSIVE SetAll(_, _, _)
\* keys.forEach(k => map.set(k, v))
SetAll(map, keys, v) ==
    IF keys = <<>> THEN map ELSE SetAll(MapSet(map, Head(keys), v), Tail(keys), v)

RECURSIVE InsertByDate(_, _)
InsertByDate(sorted, row) ==
    IF sorted = <<>> THEN <<row>>
    ELSE IF ParseDay(Head(sorted).date) - ParseDay(row.date) <= 0
         THEN <<Head(sorted)>> \o InsertByDate(Tail(sorted), row)
         ELSE <<row>> \o sorted

RECURSIVE SortByDate(_)
\* .sort((a, b) => new Date(a.date) - new Date(b.date))
SortByDate(rows) ==
    IF rows = <<>> THEN <<>>
    ELSE InsertByDate(SortByDate(SubSeq(rows, 1, Len(rows) - 1)), rows[Len(rows)])

\* the test for a missing end selector or date range of processThroughput
ThroughputUnresolved(endStatusIds, startDateStr, endDateStr) ==
    endStatusIds = {} \/ Falsy(startDateStr) \/ Falsy(endDateStr)

processThroughput(timelines, cycleEnd, startDateStr, endDateStr, groups, masterMap, zone) ==
    LET endStatusIds == getStatusIdsFromConfig(cycleEnd, groups, masterMap) IN
    IF endStatusIds.threw THEN Threw
    ELSE IF ThroughputUnresolved(endStatusIds.ids, startDateStr, endDateStr)
         THEN Returned(<<>>)
    ELSE LET completionTimestamps == CompletionTimestamps(timelines, endStatusIds.ids)
             dateRange == getDateRange(startDateStr, endDateStr, zone)
         IN  IF Len(dateRange) = 0 THEN Returned(<<>>)
             ELSE LET throughputMap ==
                          CountDays(SetAll(<<>>, dateRange, 0), completionTimestamps)
                  IN  Returned(SortByDate(
                          [n \in 1..Len(throughputMap) |->
                              [date |-> throughputMap[n].key,
                               count |-> throughputMap[n].value]]))

-----------------------------------------------------------------------------
(* processCFD *)

\* new Date(dayStr + 'T23:59:59.999Z'): the last instant of the day
SnapshotTimestamp(dayStr) == ParseDay(dayStr) + TicksPerDay - 1

\* the status of the last entry at or before the snapshot, NULL when none
StatusIdOnDate(timeline, snapshotTimestamp) ==
    LET before == {n \in 1..Len(timeline) : timeline[n].timestamp <= snapshotTimestamp} IN
    IF before = {} THEN NULL
    ELSE timeline[CHOOSE n \in before : \A k \in before : k <= n].statusId

\* every counter of the snapshot raised for every timeline in a grouped status
CountSnapshotEveryGroup(snapshot, timelines, snapshotTimestamp, statusToGroupMap) ==
    [k \in 1..Len(snapshot) |->
        [key |-> snapshot[k].key,
         value |-> snapshot[k].value +
                   Cardinality({n \in 1..Len(timelines) :
                                   MapHas(statusToGroupMap,
                                          StatusIdOnDate(timelines[n].timeline,
                                                         snapshotTimestamp))})]]

RECURSIVE CountSnapshot(_, _, _, _)
\* allIssueTimelines.forEach(({ timeline }) => { ... snapshot[groupName]++ })
CountSnapshot(snapshot, timelines, snapshotTimestamp, statusToGroupMap) ==
    IF timelines = <<>> THEN snapshot
    ELSE LET statusIdOnDate == StatusIdOnDate(Head(timelines).timeline, snapshotTimestamp)
             groupName == IF MapHas(statusToGroupMap, statusIdOnDate)
                          THEN MapGet(statusToGroupMap, statusIdOnDate) ELSE NULL
         IN  IF ~Falsy(statusIdOnDate) /\ ~Falsy(groupName) /\ MapHas(snapshot, groupName)
             THEN CountSnapshot(MapSet(snapshot, groupName, MapGet(snapshot, groupName) + 1),
                                Tail(timelines), snapshotTimestamp, statusToGroupMap)
             ELSE CountSnapshot(snapshot, Tail(timelines), snapshotTimestamp, statusToGroupMap)

\* one row of the diagram: the day and the count of every group of groupOrder
Snapshot(dayStr, timelines, groupOrder, statusToGroupMap) ==
    [date |-> dayStr,
     groups |-> CountSnapshot(SetAll(<<>>, groupOrder, 0), timelines,
                              SnapshotTimestamp(dayStr), statusToGroupMap)]

processCFD(timelines, groupOrder, statusToGroupMap, startDateStr, endDateStr, zone) ==
    IF Falsy(startDateStr) \/ Falsy(endDateStr) THEN <<>>
    ELSE LET dateRange == getDateRange(startDateStr, endDateStr, zone) IN
         [n \in 1..Len(dateRange) |->
             Snapshot(dateRange[n], timelines, groupOrder, statusToGroupMap)]

-----------------------------------------------------------------------------
(* processSupportMetrics *)

\* the first entry after the creation entry, whatever its status
FindAckEventAnyStatus(timeline, triageStatusIds) == IF Len(timeline) > 1 THEN 2 ELSE 0

\* timeline.find((event, index) => index > 0 && !triageStatusIds.has(event.statusId))
FindAckEvent(timeline, triageStatusIds) ==
    LET fits(n) == n > 1 /\ timeline[n].statusId \notin triageStatusIds IN
    IF \E n \in 1..Len(timeline) : fits(n)
    THEN CHOOSE n \in 1..Len(timeline) : fits(n) /\ \A k \in 1..(n - 1) : ~fits(k)
    ELSE 0

RECURSIVE MttaDurations(_, _)
MttaDurations(timelines, triageStatusIds) ==
    IF timelines = <<>> THEN <<>>
    ELSE LET timeline == Head(timelines).timeline
             ackEvent == FindAckEvent(timeline, triageStatusIds)
             rest == MttaDurations(Tail(timelines), triageStatusIds)
             duration == getDuration(timeline[1].timestamp, timeline[ackEvent].timestamp,
                                     "hours")
         IN  IF Len(timeline) # 0 /\ ackEvent # 0 /\ FracLeq(Zero, duration)
             THEN <<duration>> \o rest
             ELSE rest

RECURSIVE MttrDurations(_, _)
MttrDurations(timelines, endStatusIds) ==
    IF timelines = <<>> THEN <<>>
    ELSE LET timeline == Head(timelines).timeline
             resolveEvent == FindIn(timeline, endStatusIds)
             rest == MttrDurations(Tail(timelines), endStatusIds)
             duration == getDuration(timeline[1].timestamp,
                                     timeline[resolveEvent].timestamp, "hours")
         IN  IF Len(timeline) # 0 /\ resolveEvent # 0 /\ FracLeq(Zero, duration)
             THEN <<duration>> \o rest
             ELSE rest

\* durations.length > 0 ? durations.reduce((a, b) => a + b, 0) / durations.length : 0
Average(durations) ==
    IF Len(durations) > 0 THEN FracDiv(SumFracs(durations), Len(durations)) ELSE Zero

\* the averages are given up only when neither selector resolves
SupportUnresolvedBoth(triageIds, endIds) == triageIds = {} /\ endIds = {}

\* triageStatusIds.size === 0 || endStatusIds.size === 0
SupportUnresolved(triageIds, endIds) == triageIds = {} \/ endIds = {}

processSupportMetrics(timelines, triage, cycleEnd, groups, masterMap) ==
    LET triageStatusIds == getStatusIdsFromConfig(triage, groups, masterMap)
        endStatusIds == getStatusIdsFromConfig(cycleEnd, groups, masterMap)
    IN  IF triageStatusIds.threw \/ endStatusIds.threw THEN Threw
        ELSE IF SupportUnresolved(triageStatusIds.ids, endStatusIds.ids)
             THEN Returned([avgMttaHours |-> Zero, avgMttrHours |-> Zero])
        ELSE Returned([avgMttaHours |-> Average(MttaDurations(timelines, triageStatusIds.ids)),
                       avgMttrHours |-> Average(MttrDurations(timelines, endStatusIds.ids))])

-----------------------------------------------------------------------------
(* calculateSummaryStats *)

\* the statuses of the master map that are in none of the three sets
WipStatusIds(masterMap, startStatusIds, endStatusIds, triageStatusIds) ==
    {statusId \in MapKeys(masterMap) :
        /\ statusId \notin startStatusIds
        /\ statusId \notin endStatusIds
        /\ statusId \notin triageStatusIds}

RECURSIVE CurrentWIP(_, _)
\* issues.forEach((issue) => { ... currentWIP++ })
CurrentWIP(issueList, wipStatusIds) ==
    IF issueList = <<>> THEN 0
    ELSE (IF Head(issueList).statusId # NULL /\ Str(Head(issueList).statusId) \in wipStatusIds
          THEN 1 ELSE 0) + CurrentWIP(Tail(issueList), wipStatusIds)

\* the selectors are resolved against an empty list of groups
calculateSummaryStats(issueList, masterMap, cycleTimeData, cycleStart, cycleEnd, supportMetrics, triage) ==
    LET startStatusIds == getStatusIdsFromConfig(cycleStart, JsArray(<<>>), masterMap).ids
        endStatusIds == getStatusIdsFromConfig(cycleEnd, JsArray(<<>>), masterMap).ids
        triageStatusIds == getStatusIdsFromConfig(triage, JsArray(<<>>), masterMap).ids
    IN  [totalIssues |-> Len(issueList),
         avgCycleTime |-> cycleTimeData.avg,
         p85CycleTime |-> cycleTimeData.p85,
         p50CycleTime |-> cycleTimeData.p50,
         currentWIP |-> CurrentWIP(issueList,
                            WipStatusIds(masterMap, startStatusIds, endStatusIds,
                                         triageStatusIds)),
         avgMttaHours |-> supportMetrics.avgMttaHours,
         avgMttrHours |-> supportMetrics.avgMttrHours]

-----------------------------------------------------------------------------
(* processMetrics *)

\* what a call does: it returns null, throws, or returns a result object
NoValue == [none |-> TRUE]
ReturnedNull == [outcome |-> "null", value |-> NoValue]
ThrewError == [outcome |-> "throw", value |-> NoValue]

\* ReturnsNull without the test that statusGroups is an array
ReturnsNullGroupsUnchecked(iss, groups, statuses) ==
    \/ ~iss.isArray \/ Len(iss.items) = 0
    \/ ~statuses.isArray \/ Len(statuses.items) = 0

\* the input validation
ReturnsNull(iss, groups, statuses) ==
    \/ ~iss.isArray \/ Len(iss.items) = 0
    \/ ~groups.isArray
    \/ ~statuses.isArray \/ Len(statuses.items) = 0

\* Object.fromEntries(map)
ObjectFromEntries(map) == [k \in MapKeys(map) |-> MapGet(map, k)]

processMetrics(iss, groups, startDateStr, endDateStr, cycleStart, cycleEnd, triage, statuses, nowDate, zone) ==
    IF ReturnsNull(iss, groups, statuses) THEN ReturnedNull
    ELSE LET masterMap == StatusMasterMap(statuses.items)
             lookups == Lookups(groups.items, masterMap)
             allIssueTimelines == AllIssueTimelines(iss.items, masterMap)
             cycleTimeData ==
                 processCycleTime(allIssueTimelines, cycleStart, cycleEnd, groups, masterMap)
             throughputData ==
                 processThroughput(allIssueTimelines, cycleEnd, startDateStr, endDateStr,
                                   groups, masterMap, zone)
             supportMetrics ==
                 processSupportMetrics(allIssueTimelines, triage, cycleEnd, groups, masterMap)
         IN  IF cycleTimeData.threw \/ throughputData.threw \/ supportMetrics.threw
             THEN ThrewError
             ELSE [outcome |-> "result",
                   value |->
                     [distribution |->
                          calculateDistributionDetailed(iss.items, masterMap,
                              lookups.statusToGroupMap, lookups.initialGroupCounters),
                      timeInStatus |->
                          calculateTimeInStatusDetailed(allIssueTimelines, masterMap,
                              lookups.statusToGroupMap, lookups.initialGroupCounters,
                              nowDate),
                      cycleTimeData |-> cycleTimeData.value,
                      throughputData |-> throughputData.value,
                      cfdData |-> processCFD(allIssueTimelines, lookups.groupOrder,
                                             lookups.statusToGroupMap,
                                             startDateStr, endDateStr, zone),
                      summaryStats |->
                          calculateSummaryStats(iss.items, masterMap, cycleTimeData.value,
                                                cycleStart, cycleEnd,
                                                supportMetrics.value, triage),
                      supportMetrics |-> supportMetrics.value,
                      statusToGroupMap |-> ObjectFromEntries(lookups.statusToGroupMap),
                      statusMasterMap |-> ObjectFromEntries(masterMap)]]

-----------------------------------------------------------------------------
(* The issues the timeline builder is run on *)

StatusItem(from, to) ==
    [field |-> "status", from |-> from, fromString |-> "name", to |-> to]

\* the item lists of one history: single changes between known statuses, to
\* and from the unknown status "9", a change to the same status, an item
\* without its new value, a history of items that are no status change, and
\* a history of two changes
ItemLists ==
    { <<>>,
      <<StatusItem("1", "2")>>,
      <<StatusItem("2", "1")>>,
      <<StatusItem("1", "9")>>,
      <<StatusItem("9", "1")>>,
      <<StatusItem("1", "1")>>,
      <<StatusItem("2", NULL)>>,
      <<StatusItem(NULL, "2"),
        [field |-> "status", from |-> "2", fromString |-> NULL, to |-> "1"],
        [field |-> "assignee", from |-> "2", fromString |-> "name", to |-> "1"]>>,
      <<StatusItem("1", "2"), StatusItem("2", "1")>> }

HistoryDates == {"garbage"} \cup {IsoString(t) : t \in 1..MaxTime}

Histories == [created : HistoryDates, items : ItemLists]

HistoryLists == UNION {[1..n -> Histories] : n \in 0..MaxHist}

\* created and current status of the issues run with every changelog
FullFields == { <<IsoString(2), "1">>, <<IsoString(2), NULL>> }

\* created and current status of the issues run with the changelogs of at
\* most one history: no or an unparseable creation date, an unknown and a
\* numeric current status
ShortFields ==
    { <<NULL, "1">>, <<"garbage", "1">>, <<IsoString(2), "9">>, <<IsoString(2), "#2">> }

ShortHistoryLists == {hs \in HistoryLists : Len(hs) <= 1}

TimelineIssue(f, hasChangelog, hs) ==
    [key |-> "K", created |-> f[1], statusId |-> f[2],
     hasChangelog |-> hasChangelog, histories |-> hs]

\* the status universe: the statuses "1" and "2"; "9" is no status
MasterMap == StatusMasterMap(<<Status("1", "Open"), Status("2", "Done")>>)

NoIssue == [key |-> NULL, created |-> NULL, statusId |-> NULL,
            hasChangelog |-> FALSE, histories |-> <<>>]
NoConfig == [type |-> NULL, value |-> NULL]
NoResolved == [threw |-> FALSE, ids |-> {}]
NoResult == [outcome |-> "none", value |-> NoValue]

\* processMetrics is not called
NoMetricsCall ==
    /\ issues = NotAnArray
    /\ startDate = NULL
    /\ endDate = NULL
    /\ cycleStartConfig = NoConfig
    /\ cycleEndConfig = NoConfig
    /\ triageConfig = NoConfig
    /\ allStatuses = NotAnArray
    /\ now = 0
    /\ timeZone = NoClockChange
    /\ result = NoResult

\* no statistics are computed
NoStatsCall ==
    /\ sortedArray = <<>>
    /\ percentile = 0
    /\ durationsDays = <<>>
    /\ cycleMs = <<>>

InitTimeline ==
    /\ pc = "call"
    /\ \/ \E f \in FullFields, hs \in HistoryLists :
              issue = TimelineIssue(f, TRUE, hs)
       \/ \E f \in ShortFields, hs \in ShortHistoryLists :
              issue = TimelineIssue(f, TRUE, hs)
       \/ \E f \in FullFields \cup ShortFields :
              issue = TimelineIssue(f, FALSE, <<>>)
    /\ statusMasterMap = MasterMap
    /\ built = NullTimeline
    /\ config = NoConfig
    /\ statusGroups = JsArray(<<>>)
    /\ resolved = NoResolved
    /\ NoMetricsCall
    /\ NoStatsCall
    /\ calls = <<>>

BuildTimeline ==
    /\ pc = "call"
    /\ built' = buildIssueTimelineByStatus(issue, statusMasterMap)
    /\ pc' = "done"
    /\ UNCHANGED <<issue, statusMasterMap, config, statusGroups, resolved, metricsVars,
                   statsVars, calls>>

NextTimeline == BuildTimeline

SpecTimeline == InitTimeline /\ [][NextTimeline]_vars

-----------------------------------------------------------------------------
(* Properties of buildIssueTimelineByStatus *)

\* the status changes in the order of the audit log, before the sort
Extracted == IF issue.hasChangelog THEN FlatMapHistories(issue.histories) ELSE <<>>

\* the position in the audit log of the chronologically first extracted change
FirstChronological(E) ==
    CHOOSE k \in 1..Len(E) :
        \A j \in 1..Len(E) :
            \/ E[k].timestamp < E[j].timestamp
            \/ E[k].timestamp = E[j].timestamp /\ k <= j

\* the status the issue is taken to have had at its creation
InitialStatus ==
    IF Len(Extracted) > 0 THEN Extracted[FirstChronological(Extracted)].fromId
    ELSE IF issue.statusId # NULL THEN Str(issue.statusId)
    ELSE NULL

CreatedParses == issue.created # NULL /\ ParseDate(issue.created) # NaN

\* C2: in every timeline the builder returns, consecutive entries have
\* non-decreasing timestamps, also when status changes are dated before the
\* creation of the issue.
C2_TimelineNonDecreasing ==
    (pc = "done" /\ built.ok) =>
        \A k \in 1..(Len(built.timeline) - 1) :
            built.timeline[k].timestamp <= built.timeline[k + 1].timestamp

\* C3: the status at creation is the fromId of the chronologically first
\* extracted status change if there is one, else the issue's current status
\* id; the builder returns null when that status is absent or unknown, and a
\* timeline starting with that status otherwise.
C3_InitialStatus ==
    (pc = "done" /\ CreatedParses) =>
        /\ built.ok <=> (InitialStatus # NULL /\ InitialStatus \in MapKeys(statusMasterMap))
        /\ built.ok => built.timeline[1].statusId = InitialStatus

\* a timeline whose first status comes from a change that is not the first of
\* the audit log, and differs from the current status
C3_Witness ==
    /\ pc = "done" /\ built.ok
    /\ Len(Extracted) > 1
    /\ FirstChronological(Extracted) > 1
    /\ built.timeline[1].statusId # Str(issue.statusId)
    /\ built.timeline[1].statusId # Extracted[1].fromId

\* C4: every statusId of a returned timeline is in the status universe; a
\* change to an unknown status adds no entry and does not reject the issue.
C4_KnownStatuses ==
    pc = "done" =>
        /\ built.ok =>
              \A k \in 1..Len(built.timeline) :
                  built.timeline[k].statusId \in MapKeys(statusMasterMap)
        /\ (CreatedParses /\ InitialStatus # NULL /\ InitialStatus \in MapKeys(statusMasterMap))
              => built.ok

\* a timeline built from an audit log with a change to an unknown status
C4_Witness ==
    /\ pc = "done" /\ built.ok
    /\ \E k \in 1..Len(Extracted) : Extracted[k].toId = "9"
    /\ Len(built.timeline) > 1

\* C5: no two adjacent entries of a returned timeline have the same statusId;
\* changes that only lead to the initial status or to unknown statuses leave
\* the single creation entry.
C5_NoAdjacentDuplicates ==
    (pc = "done" /\ built.ok) =>
        /\ \A k \in 1..(Len(built.timeline) - 1) :
              built.timeline[k].statusId # built.timeline[k + 1].statusId
        /\ (\A k \in 1..Len(Extracted) :
                \/ Extracted[k].toId = InitialStatus
                \/ Extracted[k].toId \notin MapKeys(statusMasterMap))
              => Len(built.timeline) = 1

\* A -> unknown -> A: a single entry
C5_Witness ==
    /\ pc = "done" /\ built.ok
    /\ Len(Extracted) = 2
    /\ Extracted[1].timestamp < Extracted[2].timestamp
    /\ Extracted[1].fromId = "1" /\ Extracted[1].toId = "9"
    /\ Extracted[2].fromId = "9" /\ Extracted[2].toId = "1"
    /\ Len(built.timeline) = 1

\* C6: the first entry of a returned timeline is dated at the creation of the
\* issue, every later entry is dated at an extracted change, and the timeline
\* has at most one entry more than there are extracted changes.
C6_CreationFirstNoNow ==
    (pc = "done" /\ built.ok) =>
        /\ built.timeline[1].timestamp = ParseDate(issue.created)
        /\ Len(built.timeline) <= 1 + Len(Extracted)
        /\ \A k \in 2..Len(built.timeline) :
              \E j \in 1..Len(Extracted) :
                  /\ Extracted[j].timestamp = built.timeline[k].timestamp
                  /\ Extracted[j].toId = built.timeline[k].statusId

\* a timeline with as many entries as the bound allows
C6_Witness ==
    /\ pc = "done" /\ built.ok
    /\ Len(Extracted) >= 2
    /\ Len(built.timeline) = 1 + Len(Extracted)

\* the claimed condition for an audit item to be a status change
ClaimedStatusChange(item, created) ==
    /\ item.field = "status"
    /\ item.from # NULL
    /\ item.to # NULL
    /\ ParseDate(created) # NaN

RECURSIVE CountClaimed(_)
CountClaimed(histories) ==
    IF histories = <<>> THEN 0
    ELSE LET h == Head(histories) IN
         Cardinality({k \in 1..Len(h.items) : ClaimedStatusChange(h.items[k], h.created)})
            + CountClaimed(Tail(histories))

\* the issue without the status items that miss their old or their new value
WithoutIncompleteItems(i) ==
    [i EXCEPT !.histories =
        [k \in 1..Len(i.histories) |->
            [i.histories[k] EXCEPT !.items =
                SelectSeq(i.histories[k].items,
                          LAMBDA item : ~(item.field = "status"
                                          /\ (item.from = NULL \/ item.to = NULL)))]]]

\* C7: an audit item is used as a status change exactly if its field is
\* "status", its old and new values are both present and the timestamp of its
\* history is valid; an item that misses either value changes neither the
\* initial status nor the entries of the timeline.
C7_StatusChangeItems ==
    (pc = "done" /\ CreatedParses) =>
        /\ issue.hasChangelog => Len(Extracted) = CountClaimed(issue.histories)
        /\ built = buildIssueTimelineByStatus(WithoutIncompleteItems(issue), statusMasterMap)

-----------------------------------------------------------------------------
(* The selectors and group lists the resolver is run on *)

GroupNames == {"G", "H"}

StatusLists == { <<>>, <<"1">>, <<"1", "2">>, <<"2", "9">>, <<"#1", NULL>> }

GroupEntries ==
    {GroupEntry(n, l) : n \in GroupNames, l \in StatusLists}
        \cup {GroupWithoutStatuses("G"), NullGroup}

GroupLists == UNION {[1..n -> GroupEntries] : n \in 0..MaxGroups}

Configs ==
    [type : {"group", "status", "other"},
     value : {NULL, "", "G", "H", "NoSuchGroup", "1", "9", "#2"}]

MasterMaps == {MasterMap, StatusMasterMap(<<Status("#2", "Done")>>)}

InitResolver ==
    /\ pc = "call"
    /\ issue = NoIssue
    /\ statusMasterMap \in MasterMaps
    /\ built = NullTimeline
    /\ config \in Configs
    /\ \E l \in GroupLists : statusGroups = JsArray(l)
    /\ resolved = NoResolved
    /\ NoMetricsCall
    /\ NoStatsCall
    /\ calls = <<>>

ResolveConfig ==
    /\ pc = "call"
    /\ resolved' = getStatusIdsFromConfig(config, statusGroups, statusMasterMap)
    /\ pc' = "done"
    /\ UNCHANGED <<issue, statusMasterMap, built, config, statusGroups, metricsVars,
                   statsVars, calls>>

NextResolver == ResolveConfig

SpecResolver == InitResolver /\ [][NextResolver]_vars

-----------------------------------------------------------------------------
(* Properties of getStatusIdsFromConfig *)

\* the positions of the groups named by the selector
Named == {k \in 1..Len(statusGroups.items) :
            ~statusGroups.items[k].isNull /\ statusGroups.items[k].name = config.value}

\* the group the selector names: the first of that name
NamedGroup == statusGroups.items[CHOOSE k \in Named : \A j \in Named : k <= j]

\* the set the selector denotes
Denoted ==
    IF config.value = NULL \/ config.value = "" THEN {}
    ELSE IF config.type = "status" THEN {Str(config.value)} \cap MapKeys(statusMasterMap)
    ELSE IF config.type = "group" /\ Named # {}
         THEN {id \in MapKeys(statusMasterMap) :
                 \E k \in 1..Len(NamedGroup.statuses) : Str(NamedGroup.statuses[k]) = id}
    ELSE {}

\* C8: the resolver returns the singleton of a known status for a selector of
\* type 'status', the known member statuses of the named group for a selector
\* of type 'group', and the empty set for an unknown status, a missing group
\* or a falsy value; the result is a subset of the status universe.
C8_ResolverResult ==
    (pc = "done" /\ ~resolved.threw) =>
        /\ resolved.ids = Denoted
        /\ resolved.ids \subseteq MapKeys(statusMasterMap)

\* a group selector resolved to a proper, non-empty part of the group's members
C8_Witness ==
    /\ pc = "done" /\ ~resolved.threw
    /\ config.type = "group" /\ Named # {}
    /\ resolved.ids # {}
    /\ Len(NamedGroup.statuses) > Cardinality(resolved.ids)

\* C9: the resolver never throws, whatever the selector and the group list,
\* malformed entries included.
C9_ResolverNeverThrows ==
    pc = "done" => ~resolved.threw

-----------------------------------------------------------------------------
(* The calls of processMetrics *)

MaxIssues == 2      \* issues per call

History(created, items) == [created |-> created, items |-> items]

\* the ISO string of the instant `hours` hours into the day
At(day, hours) == IsoString(day * TicksPerDay + hours * TicksPerHour)

\* the issues of the calls:
\*   1. opened at the start of day 0 and done three days later;
\*   2. open since day 1, without changelog;
\*   3. created on day 1, its only change dated on day 0, before the creation;
\*   4. in the unknown status "9";
\*   5. opened at the start of day 0 and done two hours later;
\*   6. created as done and reopened in the same instant;
\*   7. done on day 1, reopened, and done again on day 2;
\*   8. created as done and reopened a day later
MetricIssues ==
    << TimelineIssue(<<At(0, 0), "2">>, TRUE,
                     <<History(At(3, 0), <<StatusItem("1", "2")>>)>>),
       TimelineIssue(<<At(1, 0), "1">>, FALSE, <<>>),
       TimelineIssue(<<At(1, 0), "2">>, TRUE,
                     <<History(At(0, 1), <<StatusItem("1", "2")>>)>>),
       TimelineIssue(<<At(0, 0), "9">>, FALSE, <<>>),
       TimelineIssue(<<At(0, 0), "2">>, TRUE,
                     <<History(At(0, 2), <<StatusItem("1", "2")>>)>>),
       TimelineIssue(<<At(1, 1), "1">>, TRUE,
                     <<History(At(1, 1), <<StatusItem("2", "1")>>)>>),
       TimelineIssue(<<At(0, 1), "2">>, TRUE,
                     <<History(At(1, 0), <<StatusItem("1", "2")>>),
                       History(At(1, 2), <<StatusItem("2", "1")>>),
                       History(At(2, 0), <<StatusItem("1", "2")>>)>>),
       TimelineIssue(<<At(0, 0), "1">>, TRUE,
                     <<History(At(1, 0), <<StatusItem("2", "1")>>)>>) >>

\* the non-empty issue lists, up to the order of the issues
IssueLists ==
    {[k \in 1..Len(l) |-> MetricIssues[l[k]]] :
        l \in {l \in UNION {[1..n -> 1..Len(MetricIssues)] : n \in 1..MaxIssues} :
                 \A k \in 1..(Len(l) - 1) : l[k] <= l[k + 1]}}

MetricGroupEntries ==
    {GroupEntry("G", <<"1">>), GroupEntry("H", <<"1", "2">>), NullGroup}

MetricGroupLists == UNION {[1..n -> MetricGroupEntries] : n \in 0..MaxGroups}

\* the groups G = {Open} and H = {Open, Done}
TwoGroups == <<GroupEntry("G", <<"1">>), GroupEntry("H", <<"1", "2">>)>>

Selector(type, value) == [type |-> type, value |-> value]

\* resolvable, unset and unresolvable selectors
TriageSelectors == {Selector("status", "1"), Selector("group", "G")}
StartSelectors ==
    {Selector("status", "1"), Selector("group", "G"), Selector("status", "")}
EndSelectors ==
    {Selector("status", "2"), Selector("group", "H"), Selector("group", "NoSuchGroup"),
     Selector("status", "9")}

\* a reporting window is a pair of day strings, of missing or unparseable ones
WindowDates == {NULL, "garbage"} \cup {DayString(d) : d \in Days}

\* the metadata statuses Open and Done
TwoStatuses == <<Status("1", "Open"), Status("2", "Done")>>

\* the call of processMetrics has the arguments of the state
MetricsCall(iss, groups, sd, ed, cs, ce, tr, sts, zone) ==
    /\ timeZone = zone
    /\ issues = iss
    /\ statusGroups = groups
    /\ startDate = sd
    /\ endDate = ed
    /\ cycleStartConfig = cs
    /\ cycleEndConfig = ce
    /\ triageConfig = tr
    /\ allStatuses = sts

\* calls with arguments that are no arrays or empty arrays
InitArguments ==
    \E iss \in {NotAnArray, JsArray(<<>>), JsArray(<<MetricIssues[1], MetricIssues[2]>>)},
       groups \in {NotAnArray, JsArray(<<>>), JsArray(<<NullGroup>>), JsArray(TwoGroups)},
       sts \in {NotAnArray, JsArray(<<>>), JsArray(TwoStatuses)},
       cs \in {Selector("status", "1"), Selector("group", "G"), NoConfig} :
        MetricsCall(iss, groups, DayString(0), DayString(MaxTime),
                    cs, Selector("status", "2"), Selector("status", "1"), sts,
                    NoClockChange)

\* calls with every list of groups and every choice of selectors
InitSelectors ==
    \E l \in IssueLists, g \in MetricGroupLists,
       cs \in StartSelectors, ce \in EndSelectors, tr \in TriageSelectors :
        MetricsCall(JsArray(l), JsArray(g), DayString(0), DayString(MaxTime),
                    cs, ce, tr, JsArray(TwoStatuses), NoClockChange)

\* calls with every reporting window
InitWindows ==
    \E l \in IssueLists, sd \in WindowDates, ed \in WindowDates :
        MetricsCall(JsArray(l), JsArray(TwoGroups), sd, ed,
                    Selector("status", "1"), Selector("status", "2"),
                    Selector("status", "1"), JsArray(TwoStatuses), NoClockChange)

\* the time zones: without a change of the clock, or with the clock put
\* forward or back on one of the days
TimeZones == {NoClockChange} \cup {ClockChange(d, s) : d \in Days, s \in {-1, 1}}

\* calls in every time zone, with every window of days
InitTimeZones ==
    \E l \in IssueLists, a \in Days, b \in Days, zone \in TimeZones :
        /\ Len(l) = 1
        /\ a <= b
        /\ MetricsCall(JsArray(l), JsArray(TwoGroups), DayString(a), DayString(b),
                       Selector("status", "1"), Selector("status", "2"),
                       Selector("status", "1"), JsArray(TwoStatuses), zone)

\* malformed issues: without creation date, with a creation date that does
\* not parse, with a change to the unknown status "9", and with a change
\* whose date does not parse
MalformedIssues ==
    << TimelineIssue(<<NULL, "1">>, FALSE, <<>>),
       TimelineIssue(<<"garbage", "2">>, TRUE,
                     <<History(At(1, 0), <<StatusItem("1", "2")>>)>>),
       TimelineIssue(<<At(0, 0), "1">>, TRUE,
                     <<History(At(1, 0), <<StatusItem("1", "9")>>)>>),
       TimelineIssue(<<At(0, 0), "2">>, TRUE,
                     <<History("garbage", <<StatusItem("1", "2")>>)>>) >>

\* calls on two issues of which one at least is malformed
InitMalformed ==
    \E a \in 1..(Len(MetricIssues) + Len(MalformedIssues)),
       b \in 1..(Len(MetricIssues) + Len(MalformedIssues)) :
        /\ a > Len(MetricIssues) \/ b > Len(MetricIssues)
        /\ MetricsCall(JsArray(<<(MetricIssues \o MalformedIssues)[a],
                                 (MetricIssues \o MalformedIssues)[b]>>),
                       JsArray(TwoGroups), DayString(0), DayString(MaxTime),
                       Selector("status", "1"), Selector("status", "2"),
                       Selector("status", "1"), JsArray(TwoStatuses), NoClockChange)

InitMetrics ==
    /\ pc = "call"
    /\ issue = NoIssue
    /\ statusMasterMap = <<>>
    /\ built = NullTimeline
    /\ config = NoConfig
    /\ resolved = NoResolved
    /\ InitArguments \/ InitSelectors \/ InitWindows \/ InitTimeZones \/ InitMalformed
    /\ now = MaxTime * TicksPerDay
    /\ result = NoResult
    /\ NoStatsCall
    /\ calls = <<>>

ProcessMetrics ==
    /\ pc = "call"
    /\ result' = processMetrics(issues, statusGroups, startDate, endDate,
                                cycleStartConfig, cycleEndConfig, triageConfig,
                                allStatuses, now, timeZone)
    /\ pc' = "done"
    /\ UNCHANGED <<issue, statusMasterMap, built, config, statusGroups, resolved,
                   issues, startDate, endDate, cycleStartConfig, cycleEndConfig,
                   triageConfig, allStatuses, now, timeZone, statsVars, calls>>

NextMetrics == ProcessMetrics

SpecMetrics == InitMetrics /\ [][NextMetrics]_vars

-----------------------------------------------------------------------------
(* Properties of processMetrics *)

\* issues is empty or not a list
IssuesInvalid == ~issues.isArray \/ Len(issues.items) = 0

\* allStatuses is empty or not a list
StatusesInvalid == ~allStatuses.isArray \/ Len(allStatuses.items) = 0

\* looking for the group a selector names, the resolver comes upon a null
\* entry of statusGroups
MeetsNullGroup(cfg) ==
    /\ cfg.type = "group"
    /\ ~Falsy(cfg.value)
    /\ \E k \in 1..Len(statusGroups.items) :
         /\ statusGroups.items[k].isNull
         /\ \A j \in 1..(k - 1) : statusGroups.items[j].name # cfg.value

\* C1 as stated: processMetrics returns null, without throwing, when issues or
\* allStatuses is empty or not a list, and for every other input it returns a
\* result object, whatever the groups and selectors are.
C1_NullOnlyForInvalidIssuesOrStatuses ==
    pc = "done" =>
        IF IssuesInvalid \/ StatusesInvalid
        THEN result.outcome = "null"
        ELSE result.outcome = "result"

\* C1, amended: processMetrics returns null, without throwing, exactly when
\* issues is empty or not a list, statusGroups is not a list, or allStatuses
\* is empty or not a list.  For every other input it does not return null: it
\* returns a result object, or throws when the resolver comes upon a null
\* entry of statusGroups (C9).
C1_NullExactlyForInvalidArguments ==
    pc = "done" =>
        LET invalid == IssuesInvalid \/ ~statusGroups.isArray \/ StatusesInvalid
            throws == \/ MeetsNullGroup(cycleStartConfig)
                      \/ MeetsNullGroup(cycleEndConfig)
                      \/ MeetsNullGroup(triageConfig)
        IN  /\ result.outcome = "null" <=> invalid
            /\ result.outcome = "throw" <=> (~invalid /\ throws)
            /\ result.outcome = "result" <=> (~invalid /\ ~throws)

\* a call with issues and statuses whose statusGroups is no list returns null
C1_Witness ==
    /\ pc = "done"
    /\ ~IssuesInvalid /\ ~StatusesInvalid
    /\ ~statusGroups.isArray
    /\ result.outcome = "null"

\* the status universe of the call
Universe == MapKeys(StatusMasterMap(allStatuses.items))

\* the selector is unset or names a status or group that does not exist
Unresolvable(cfg) ==
    \/ Falsy(cfg.value)
    \/ cfg.type = "status" /\ Str(cfg.value) \notin Universe
    \/ cfg.type = "group" /\ \A k \in 1..Len(statusGroups.items) :
                                statusGroups.items[k].name # cfg.value

\* C10: when a selector is unset or names a group or status that does not
\* exist, the call does not throw: the cycle time data is the zeroed default
\* if that selector is the start or the end selector, the throughput is empty
\* if it is the end selector, and distribution, time in status and the flow
\* diagram are those of the issues, groups and window of the call.
C10_UnresolvableSelectorDegrades ==
    (/\ pc = "done"
     /\ ~IssuesInvalid /\ statusGroups.isArray /\ ~StatusesInvalid
     /\ \/ Unresolvable(cycleStartConfig)
        \/ Unresolvable(cycleEndConfig)
        \/ Unresolvable(triageConfig)) =>
        /\ result.outcome = "result"
        /\ (Unresolvable(cycleStartConfig) \/ Unresolvable(cycleEndConfig)) =>
               result.value.cycleTimeData = defaultResult
        /\ Unresolvable(cycleEndConfig) => result.value.throughputData = <<>>
        /\ LET masterMap == StatusMasterMap(allStatuses.items)
               lookups == Lookups(statusGroups.items, masterMap)
               timelines == AllIssueTimelines(issues.items, masterMap)
           IN  /\ result.value.distribution =
                      calculateDistributionDetailed(issues.items, masterMap,
                          lookups.statusToGroupMap, lookups.initialGroupCounters)
               /\ result.value.timeInStatus =
                      calculateTimeInStatusDetailed(timelines, masterMap,
                          lookups.statusToGroupMap, lookups.initialGroupCounters, now)
               /\ result.value.cfdData =
                      processCFD(timelines, lookups.groupOrder, lookups.statusToGroupMap,
                                 startDate, endDate, timeZone)

-----------------------------------------------------------------------------
(* Properties of the summary statistics *)

\* the positions of the groups of statusGroups a selector names
GroupsNamed(cfg) ==
    {k \in 1..Len(statusGroups.items) :
        ~statusGroups.items[k].isNull /\ statusGroups.items[k].name = cfg.value}

\* the set a selector denotes by the contract of the resolver: the known
\* member statuses of the named group, or the single known status
SelectorDenotes(cfg) ==
    IF Falsy(cfg.value) THEN {}
    ELSE IF cfg.type = "status" THEN {Str(cfg.value)} \cap Universe
    ELSE IF cfg.type = "group" /\ GroupsNamed(cfg) # {}
         THEN LET g == statusGroups.items[CHOOSE k \in GroupsNamed(cfg) :
                                              \A j \in GroupsNamed(cfg) : k <= j]
              IN  {id \in Universe :
                      \E k \in 1..Len(g.statuses) : Str(g.statuses[k]) = id}
    ELSE {}

\* the statuses that are work in progress
WipSet ==
    Universe \ (SelectorDenotes(triageConfig) \cup SelectorDenotes(cycleStartConfig)
                    \cup SelectorDenotes(cycleEndConfig))

\* C11: the current WIP of the summary is the number of issues whose current
\* status is in the status universe and in none of the sets the triage, the
\* cycle start and the cycle end selector denote, a group selector denoting
\* the member statuses of its group.
C11_CurrentWip ==
    (pc = "done" /\ result.outcome = "result") =>
        result.value.summaryStats.currentWIP =
            Cardinality({k \in 1..Len(issues.items) :
                            /\ issues.items[k].statusId # NULL
                            /\ Str(issues.items[k].statusId) \in WipSet})

-----------------------------------------------------------------------------
(* Properties of processCycleTime *)

\* the timelines of the issues of the call
Timelines == AllIssueTimelines(issues.items, StatusMasterMap(allStatuses.items))

\* the start and the end set of the call
StartSet == SelectorDenotes(cycleStartConfig)
EndSet == SelectorDenotes(cycleEndConfig)

\* the position of the first entry of a timeline in the start set, 0 if none
FirstStart(timeline) ==
    LET in == {k \in 1..Len(timeline) : timeline[k].statusId \in StartSet} IN
    IF in = {} THEN 0 ELSE CHOOSE k \in in : \A j \in in : k <= j

\* the positions of the entries in the end set at or after the first start
EndsFrom(timeline) ==
    {k \in 1..Len(timeline) :
        /\ FirstStart(timeline) # 0
        /\ timeline[k].statusId \in EndSet
        /\ timeline[k].timestamp >= timeline[FirstStart(timeline)].timestamp}

RECURSIVE CycleDays(_)
\* the durations the timelines record, in days, in the order of the issues
CycleDays(timelines) ==
    IF timelines = <<>> THEN <<>>
    ELSE LET timeline == Head(timelines).timeline
             ends == EndsFrom(timeline)
         IN  IF ends = {} THEN CycleDays(Tail(timelines))
             ELSE <<Frac(timeline[CHOOSE k \in ends : \A j \in ends : k <= j].timestamp
                             - timeline[FirstStart(timeline)].timestamp, TicksPerDay)>>
                      \o CycleDays(Tail(timelines))

-----------------------------------------------------------------------------
(* The calls of getPercentile *)

MaxLen == 5         \* numbers per array, each in 1..MaxLen

\* the ascending arrays of at most MaxLen whole numbers
SortedArrays ==
    {[k \in 1..Len(l) |-> Frac(l[k], 1)] :
        l \in {l \in UNION {[1..n -> 1..MaxLen] : n \in 0..MaxLen} :
                 \A k \in 1..(Len(l) - 1) : l[k] <= l[k + 1]}}

Percentiles == 0..100

\* the variables of the other functions, which are not called
OnlyStatsCall ==
    /\ issue = NoIssue
    /\ statusMasterMap = <<>>
    /\ built = NullTimeline
    /\ config = NoConfig
    /\ statusGroups = JsArray(<<>>)
    /\ resolved = NoResolved
    /\ issues = NotAnArray
    /\ startDate = NULL
    /\ endDate = NULL
    /\ cycleStartConfig = NoConfig
    /\ cycleEndConfig = NoConfig
    /\ triageConfig = NoConfig
    /\ allStatuses = NotAnArray
    /\ now = 0
    /\ timeZone = NoClockChange

InitPercentile ==
    /\ pc = "call"
    /\ OnlyStatsCall
    /\ calls = <<>>
    /\ sortedArray \in SortedArrays
    /\ percentile \in Percentiles
    /\ durationsDays = <<>>
    /\ cycleMs = <<>>
    /\ result = NoResult

GetPercentile ==
    /\ pc = "call"
    /\ result' = [outcome |-> "result", value |-> getPercentile(sortedArray, percentile)]
    /\ pc' = "done"
    /\ UNCHANGED <<issue, statusMasterMap, built, config, statusGroups, resolved,
                   issues, startDate, endDate, cycleStartConfig, cycleEndConfig,
                   triageConfig, allStatuses, now, timeZone, statsVars, calls>>

NextPercentile == GetPercentile

SpecPercentile == InitPercentile /\ [][NextPercentile]_vars

-----------------------------------------------------------------------------
(* Properties of getPercentile *)

\* the nearest rank of the percentile in an array of n numbers:
\* max(1, ceil(p / 100 * n)), the least r with 100 * r >= p * n, at least 1
NearestRank(p, n) ==
    LET r == CHOOSE r \in 0..n : 100 * r >= p * n /\ \A q \in 0..(r - 1) : 100 * q < p * n
    IN  IF r > 1 THEN r ELSE 1

\* C13: getPercentile returns the element of nearest rank of a non-empty
\* ascending array, which is an element of the array, and 0 for the empty
\* array; the 50th percentile of [1, 2, 3, 4, 5] is 3.
C13_NearestRank ==
    pc = "done" =>
        /\ sortedArray = <<>> => result.value = Zero
        /\ sortedArray # <<>> =>
               /\ result.value = sortedArray[NearestRank(percentile, Len(sortedArray))]
               /\ \E k \in 1..Len(sortedArray) : result.value = sortedArray[k]
        /\ (sortedArray = [k \in 1..5 |-> Frac(k, 1)] /\ percentile = 50) =>
               result.value = Frac(3, 1)

\* the 50th percentile of [1, 2, 3, 4, 5]
C13_Witness ==
    /\ pc = "done"
    /\ sortedArray = [k \in 1..5 |-> Frac(k, 1)]
    /\ percentile = 50
    /\ result.value = Frac(3, 1)

-----------------------------------------------------------------------------
(* The statistics of processCycleTime *)

MaxDurations == 3   \* durations per histogram

\* durations in ticks: none, a tick, half a day, 1, 3, 10, 10.5, 15, 20, 25,
\* 100, 101 and 150 days
DurationTicks ==
    {0, 1} \cup {(d * TicksPerDay) \div 2 : d \in {1, 2, 6, 20, 21, 30, 40, 50, 200, 202, 300}}

\* the lists of durations the timelines can record, the longest first
DurationLists ==
    {[k \in 1..Len(l) |-> Frac(l[k], TicksPerDay)] :
        l \in {l \in UNION {[1..n -> DurationTicks] : n \in 1..MaxDurations} :
                 \A k \in 1..(Len(l) - 1) : l[k] >= l[k + 1]}}

InitHistogram ==
    /\ pc = "call"
    /\ OnlyStatsCall
    /\ calls = <<>>
    /\ sortedArray = <<>>
    /\ percentile = 0
    /\ durationsDays \in DurationLists
    /\ cycleMs = <<>>
    /\ result = NoResult

\* the part of processCycleTime that follows the collection of the durations
Histogram ==
    /\ pc = "call"
    /\ result' = [outcome |-> "result", value |-> CycleTimeStats(durationsDays)]
    /\ pc' = "done"
    /\ UNCHANGED <<issue, statusMasterMap, built, config, statusGroups, resolved,
                   issues, startDate, endDate, cycleStartConfig, cycleEndConfig,
                   triageConfig, allStatuses, now, timeZone, statsVars, calls>>

NextHistogram == Histogram

SpecHistogram == InitHistogram /\ [][NextHistogram]_vars

-----------------------------------------------------------------------------
(* Properties of the histogram *)

\* the longest of the durations
Longest ==
    durationsDays[CHOOSE k \in 1..Len(durationsDays) :
                      \A j \in 1..Len(durationsDays) : FracLeq(durationsDays[j], durationsDays[k])]

\* the bucket width the longest duration asks for
Width ==
    IF FracLess(Frac(100, 1), Longest) THEN Frac(10, 1)
    ELSE IF FracLess(Frac(20, 1), Longest) THEN Frac(2, 1)
    ELSE IF FracLess(Frac(10, 1), Longest) THEN Frac(1, 1)
    ELSE IF FracLess(Frac(1, 1), Longest) THEN Frac(1, 2)
    ELSE Frac(1, 10)

\* the bucket [lo, lo + Width) of a duration: the number m with
\* m * Width <= d < (m + 1) * Width
BucketOf(d) ==
    CHOOSE m \in 0..(d.num * Width.den) :
        /\ FracLeq(FracTimes(Width, m), d)
        /\ FracLess(d, FracTimes(Width, m + 1))

\* the label of the bucket number m
Label(m) ==
    RangeFormat(FracTimes(Width, m)) \o "-" \o RangeFormat(FracTimes(Width, m + 1)) \o " days"

\* C14: the histogram has one bucket width, chosen from the longest duration;
\* every duration is counted in exactly one bucket, the bucket [lo, lo+width)
\* that holds it, the counts sum to the number of durations, the buckets are
\* listed by ascending lo, and a lone duration of 3 days is in the bucket
\* from 3 to 3.5 days.
C14_Histogram ==
    pc = "done" =>
        LET histogram == result.value.histogram
            used == {BucketOf(durationsDays[k]) : k \in 1..Len(durationsDays)}
        IN  /\ Len(histogram) = Cardinality(used)
            /\ \A m \in used :
                   \E n \in 1..Len(histogram) :
                       /\ histogram[n].range = Label(m)
                       /\ histogram[n].count =
                              Cardinality({k \in 1..Len(durationsDays) :
                                              BucketOf(durationsDays[k]) = m})
                       /\ \A o \in 1..Len(histogram) :
                              histogram[o].range = Label(m) => o = n
                       /\ n = Cardinality({q \in used : q <= m})
            /\ SumFracs([n \in 1..Len(histogram) |-> Frac(histogram[n].count, 1)])
                   = Frac(Len(durationsDays), 1)
            /\ durationsDays = <<Frac(3, 1)>> =>
                   histogram = <<[range |-> "3-3.5 days", count |-> 1]>>

\* a lone duration of 3 days
C14_Witness ==
    /\ pc = "done"
    /\ durationsDays = <<Frac(3, 1)>>
    /\ result.value.histogram = <<[range |-> "3-3.5 days", count |-> 1]>>

-----------------------------------------------------------------------------
(* Properties of processThroughput *)

\* the calendar days of the inclusive range of the call, ascending; empty
\* when a date does not parse or the range is reversed
WindowDays ==
    LET start == ParseDay(startDate)
        end == ParseDay(endDate)
    IN  IF start = NaN \/ end = NaN \/ start > end THEN <<>>
        ELSE [n \in 1..((end - start) \div TicksPerDay + 1) |->
                 DayString(start \div TicksPerDay + n - 1)]

\* the position of the first entry of a timeline in the end set, 0 if none
FirstEnd(timeline) ==
    LET in == {k \in 1..Len(timeline) : timeline[k].statusId \in EndSet} IN
    IF in = {} THEN 0 ELSE CHOOSE k \in in : \A j \in in : k <= j

\* the number of timelines whose first entry in the end set is on the day
CompletionsOn(day) ==
    Cardinality({n \in 1..Len(Timelines) :
                    LET timeline == Timelines[n].timeline IN
                    /\ FirstEnd(timeline) # 0
                    /\ IsoDay(timeline[FirstEnd(timeline)].timestamp) = day})

\* C15: with an end set and a range of days, the throughput has exactly one
\* entry for every calendar day of the inclusive range, in ascending order
\* of the days, and the count of a day is the number of timelines whose
\* first entry in the end set is on that UTC day, so that an issue counts
\* once and a day without completions counts 0; over three days with one
\* issue resolving on the second the counts are 0, 1, 0.
C15_ThroughputPerDay ==
    (pc = "done" /\ result.outcome = "result" /\ EndSet # {} /\ WindowDays # <<>>) =>
        /\ result.value.throughputData =
               [n \in 1..Len(WindowDays) |->
                   [date |-> WindowDays[n], count |-> CompletionsOn(WindowDays[n])]]
        /\ (/\ Len(WindowDays) = 3
            /\ Len(Timelines) = 1
            /\ CompletionsOn(WindowDays[2]) = 1)
               => /\ Len(result.value.throughputData) = 3
                  /\ \A n \in 1..3 :
                        result.value.throughputData[n].count = IF n = 2 THEN 1 ELSE 0

-----------------------------------------------------------------------------
(* Properties of processCFD *)

\* the order of the groups and the groups of the statuses of the call
GroupOrder == Lookups(statusGroups.items, StatusMasterMap(allStatuses.items)).groupOrder
StatusToGroup == Lookups(statusGroups.items, StatusMasterMap(allStatuses.items)).statusToGroupMap

\* the last instant of a day, 23:59:59.999Z on the clock of the model
EndOfDay(day) == ParseDay(day) + TicksPerDay - 1

\* the position of the most recent entry of a timeline at the end of a day:
\* of the entries at or before that instant the one with the greatest
\* timestamp, the later one of equal timestamps; 0 before the creation
MostRecent(timeline, day) ==
    LET before == {k \in 1..Len(timeline) : timeline[k].timestamp <= EndOfDay(day)}
        latest == {k \in before :
                      \A j \in before : timeline[j].timestamp <= timeline[k].timestamp}
    IN  IF before = {} THEN 0 ELSE CHOOSE k \in latest : \A j \in latest : j <= k

\* the number of issues that are in a status of the group at the end of the day
InGroupOn(group, day) ==
    Cardinality({n \in 1..Len(Timelines) :
                    LET timeline == Timelines[n].timeline
                        k == MostRecent(timeline, day)
                    IN  /\ k # 0
                        /\ MapHas(StatusToGroup, timeline[k].statusId)
                        /\ MapGet(StatusToGroup, timeline[k].statusId) = group})

\* C17: the diagram has one row for every calendar day of the range, and the
\* row of a day counts, for every group of groupOrder, the issues whose most
\* recent timeline entry at or before the last instant of the day has a
\* status of the group; an issue without an entry by then (not yet created)
\* is in no count, and neither is a status of no group of groupOrder.
C17_CfdRows ==
    (pc = "done" /\ result.outcome = "result" /\ WindowDays # <<>>) =>
        result.value.cfdData =
            [n \in 1..Len(WindowDays) |->
                [date |-> WindowDays[n],
                 groups |-> [g \in 1..Len(GroupOrder) |->
                                [key |-> GroupOrder[g],
                                 value |-> InGroupOn(GroupOrder[g], WindowDays[n])]]]]

-----------------------------------------------------------------------------
(* Properties of processSupportMetrics *)

\* the triage set of the call
TriageSet == SelectorDenotes(triageConfig)

\* the position of the acknowledgement of a timeline: its first entry after
\* the creation entry whose status is not in the triage set, 0 if none
Acknowledged(timeline) ==
    LET out == {k \in 2..Len(timeline) : timeline[k].statusId \notin TriageSet} IN
    IF out = {} THEN 0 ELSE CHOOSE k \in out : \A j \in out : k <= j

\* the hours from the creation entry of a timeline to its entry k
HoursTo(timeline, k) ==
    Frac((timeline[k].timestamp - timeline[1].timestamp) * HoursPerDay, TicksPerDay)

RECURSIVE AckHours(_)
\* the hours to the acknowledgement, of the timelines that have one
AckHours(timelines) ==
    IF timelines = <<>> THEN <<>>
    ELSE LET timeline == Head(timelines).timeline IN
         IF Acknowledged(timeline) = 0 THEN AckHours(Tail(timelines))
         ELSE <<HoursTo(timeline, Acknowledged(timeline))>> \o AckHours(Tail(timelines))

\* the mean of a list of numbers, 0 for the empty list
Mean(numbers) ==
    IF numbers = <<>> THEN Zero ELSE FracDiv(SumFracs(numbers), Len(numbers))

\* no acknowledgement of the call is earlier than the creation of its issue
AcksAfterCreation ==
    \A n \in 1..Len(Timelines) :
        LET timeline == Timelines[n].timeline IN
        Acknowledged(timeline) # 0 =>
            timeline[Acknowledged(timeline)].timestamp >= timeline[1].timestamp

HoursFromCreation(timelines, Event(_)) ==
    LET qualifies(t) ==
            /\ Event(t.timeline) # 0
            /\ t.timeline[Event(t.timeline)].timestamp >= t.timeline[1].timestamp
        kept == SelectSeq(timelines, qualifies)
    IN  [n \in 1..Len(kept) |-> HoursTo(kept[n].timeline, Event(kept[n].timeline))]

\* C19: avgMttaHours and avgMttrHours are the means over exactly the issues
\* whose duration from the creation to the event is not negative, the event
\* being the acknowledgement for MTTA and the first entry in the end set for
\* MTTR: an issue whose event is dated before its creation is in neither the
\* sum nor the number of issues, and the mean over no issue is 0.
C19_MeansOverNonNegative ==
    (pc = "done" /\ result.outcome = "result" /\ TriageSet # {} /\ EndSet # {}) =>
        /\ result.value.supportMetrics.avgMttaHours
               = Mean(HoursFromCreation(Timelines, Acknowledged))
        /\ result.value.supportMetrics.avgMttrHours
               = Mean(HoursFromCreation(Timelines, FirstEnd))

\* C27: the support metrics are avgMttaHours 0 and avgMttrHours 0 whenever
\* the triage selector or the end selector resolves to the empty set, also
\* when the other selector resolves and issues have acknowledgements or
\* resolutions.
C27_ZeroWithoutEitherSelector ==
    (pc = "done" /\ result.outcome = "result" /\ (TriageSet = {} \/ EndSet = {})) =>
        result.value.supportMetrics = [avgMttaHours |-> Zero, avgMttrHours |-> Zero]

\* the end selector resolves, an issue is resolved some hours after its
\* creation, the triage selector resolves to nothing: both averages are 0
C27_Witness ==
    /\ pc = "done" /\ result.outcome = "result"
    /\ TriageSet = {} /\ EndSet # {}
    /\ \E n \in 1..Len(Timelines) :
          LET timeline == Timelines[n].timeline IN
          /\ FirstEnd(timeline) # 0
          /\ timeline[FirstEnd(timeline)].timestamp > timeline[1].timestamp
    /\ result.value.supportMetrics = [avgMttaHours |-> Zero, avgMttrHours |-> Zero]

-----------------------------------------------------------------------------
(* Properties of calculateTimeInStatusDetailed *)

\* every status of every timeline of the call is covered by a group
AllCovered ==
    \A n \in 1..Len(Timelines) :
        \A k \in 1..Len(Timelines[n].timeline) :
            MapHas(StatusToGroup, Timelines[n].timeline[k].statusId)

RECURSIVE SumTotalMs(_)
\* the sum of the totals of the rows of a table
SumTotalMs(rows) ==
    IF rows = <<>> THEN 0 ELSE Head(rows).totalMs + SumTotalMs(Tail(rows))

RECURSIVE SumAges(_)
\* the sum, over the timelines, of now minus the creation timestamp
SumAges(timelines) ==
    IF timelines = <<>> THEN 0
    ELSE now - Head(timelines).timeline[1].timestamp + SumAges(Tail(timelines))

\* C20: when every status is covered by a group, the durations an issue
\* contributes to the time in status, every entry charged until the next
\* one and the last one until now, sum to now minus the creation of the
\* issue: the totals by status, and the totals by group, of a call add up to
\* the sum of now minus the creation over its issues.
C20_TimeInStatusSum ==
    (pc = "done" /\ result.outcome = "result" /\ AllCovered) =>
        /\ SumTotalMs(result.value.timeInStatus.byStatus) = SumAges(Timelines)
        /\ SumTotalMs(result.value.timeInStatus.byGroup) = SumAges(Timelines)

\* the averages of a row of the time in status are its total over `count`
AveragedOver(row, count) ==
    /\ row.avgHours = IF row.totalMs > 0
                      THEN Frac(row.totalMs * HoursPerDay, TicksPerDay * count) ELSE Zero
    /\ row.avgDays = IF row.totalMs > 0
                     THEN Frac(row.totalMs, TicksPerDay * count) ELSE Zero

\* C21: the average time of every status and of every group is its total
\* time divided by the number of issues handed to processMetrics, the
\* issues for which no timeline could be built included.
C21_AverageOverAllIssues ==
    (pc = "done" /\ result.outcome = "result") =>
        /\ \A n \in 1..Len(result.value.timeInStatus.byStatus) :
               AveragedOver(result.value.timeInStatus.byStatus[n], Len(issues.items))
        /\ \A n \in 1..Len(result.value.timeInStatus.byGroup) :
               AveragedOver(result.value.timeInStatus.byGroup[n], Len(issues.items))

\* the length of the interval that entry k of a timeline is charged with:
\* until the next entry, the last entry until now
Interval(timeline, k) ==
    (IF k < Len(timeline) THEN timeline[k + 1].timestamp ELSE now) - timeline[k].timestamp

\* the sum of the positive intervals of the entries in the status, over the
\* timelines of the call
PositiveMs(statusId) ==
    LET timelines == Timelines
        of(timeline) ==
            LET sum[k \in 0..Len(timeline)] ==
                    IF k = 0 THEN 0
                    ELSE sum[k - 1]
                         + (IF timeline[k].statusId = statusId /\ Interval(timeline, k) > 0
                            THEN Interval(timeline, k) ELSE 0)
            IN  sum[Len(timeline)]
        all[n \in 0..Len(timelines)] ==
            IF n = 0 THEN 0 ELSE all[n - 1] + of(timelines[n].timeline)
    IN  all[Len(timelines)]

RECURSIVE SumPositiveMs(_)
\* the sum of PositiveMs over a set of statuses
SumPositiveMs(statusIds) ==
    IF statusIds = {} THEN 0
    ELSE LET id == CHOOSE id \in statusIds : TRUE IN
         PositiveMs(id) + SumPositiveMs(statusIds \ {id})

\* the statuses mapped to a group
MappedTo(groupName) ==
    LET statusToGroup == StatusToGroup IN
    {id \in Universe : MapHas(statusToGroup, id) /\ MapGet(statusToGroup, id) = groupName}

\* C22: an interval of the time in status whose end is before or at its
\* start contributes nothing and is never subtracted: the total of a status
\* is the sum of its positive intervals, the total of a group is the sum of
\* the totals of the statuses mapped to it, and no total is negative.
C22_NegativeIntervalsExcluded ==
    (pc = "done" /\ result.outcome = "result") =>
        /\ \A n \in 1..Len(result.value.timeInStatus.byStatus) :
               LET row == result.value.timeInStatus.byStatus[n] IN
               row.totalMs >= 0 /\ row.totalMs = PositiveMs(row.id)
        /\ \A id \in Universe :
               PositiveMs(id) > 0 =>
                   \E n \in 1..Len(result.value.timeInStatus.byStatus) :
                       result.value.timeInStatus.byStatus[n].id = id
        /\ \A n \in 1..Len(result.value.timeInStatus.byGroup) :
               LET row == result.value.timeInStatus.byGroup[n] IN
               row.totalMs >= 0 /\ row.totalMs = SumPositiveMs(MappedTo(row.groupName))

\* a call with an interval that ends before it starts, in a status of a
\* group whose total is positive all the same
C22_Witness ==
    /\ pc = "done" /\ result.outcome = "result"
    /\ \E n \in 1..Len(Timelines) :
          \E k \in 1..Len(Timelines[n].timeline) :
              /\ Interval(Timelines[n].timeline, k) < 0
              /\ MapHas(StatusToGroup, Timelines[n].timeline[k].statusId)
    /\ \E n \in 1..Len(result.value.timeInStatus.byGroup) :
          /\ result.value.timeInStatus.byGroup[n].totalMs > 0
          /\ Cardinality(MappedTo(result.value.timeInStatus.byGroup[n].groupName)) = 2

-----------------------------------------------------------------------------
(* Properties of calculateDistributionDetailed *)

\* the sum of the counts of the rows of a table
SumCounts(rows) ==
    LET sum[n \in 0..Len(rows)] == IF n = 0 THEN 0 ELSE sum[n - 1] + rows[n].count
    IN  sum[Len(rows)]

\* the sum of the percentages of the rows of a table
SumPercentages(rows) == SumFracs([n \in 1..Len(rows) |-> rows[n].percentage])

\* every status of the universe is mapped to a group
AllMapped == \A id \in Universe : MapHas(StatusToGroup, id)

\* C23: the counts of the distribution by group sum to at most the number of
\* issues and its percentages to at most 100; the percentages sum to exactly
\* 100 when every status of the universe is mapped to a group and there is
\* an issue.
C23_GroupPercentages ==
    (pc = "done" /\ result.outcome = "result") =>
        /\ SumCounts(result.value.distribution.byGroup) <= Len(issues.items)
        /\ FracLeq(SumPercentages(result.value.distribution.byGroup), Frac(100, 1))
        /\ (AllMapped /\ Len(issues.items) > 0) =>
               SumPercentages(result.value.distribution.byGroup) = Frac(100, 1)

-----------------------------------------------------------------------------
(* Properties of the rollups by group *)

\* the statuses of the universe that a group of the name lists
ListedIn(groupName) ==
    {id \in Universe :
        \E k \in 1..Len(statusGroups.items) :
            LET group == statusGroups.items[k] IN
            /\ ~group.isNull /\ group.statusesIsArray /\ group.name = groupName
            /\ \E j \in 1..Len(group.statuses) :
                  group.statuses[j] # NULL /\ Str(group.statuses[j]) = id}

\* a status is listed in two groups
ListedTwice ==
    \E id \in Universe :
        \E g \in 1..Len(GroupOrder), h \in 1..Len(GroupOrder) :
            g # h /\ id \in ListedIn(GroupOrder[g]) /\ id \in ListedIn(GroupOrder[h])

\* the number of issues whose current status is one of the statuses
CurrentlyIn(statusIds) ==
    Cardinality({k \in 1..Len(issues.items) :
                    /\ issues.items[k].statusId # NULL
                    /\ Str(issues.items[k].statusId) \in statusIds})

\* C24: a status listed in two or more groups is counted in each of them by
\* the rollups by group: the count of a group in the distribution is the
\* number of issues in the statuses the group lists, and its total in the
\* time in status is the sum of the totals of the statuses it lists.
C24_DoubleCounting ==
    (pc = "done" /\ result.outcome = "result") =>
        /\ \A n \in 1..Len(result.value.distribution.byGroup) :
               LET row == result.value.distribution.byGroup[n] IN
               row.count = CurrentlyIn(ListedIn(row.name))
        /\ \A n \in 1..Len(result.value.timeInStatus.byGroup) :
               LET row == result.value.timeInStatus.byGroup[n] IN
               row.totalMs = SumPositiveMs(ListedIn(row.groupName))

\* the groups of the call that list the status, by position
ListingGroups(id) ==
    {k \in 1..Len(statusGroups.items) :
        LET group == statusGroups.items[k] IN
        /\ ~group.isNull /\ ~Falsy(group.name) /\ group.statusesIsArray
        /\ \E j \in 1..Len(group.statuses) :
              group.statuses[j] # NULL /\ Str(group.statuses[j]) = id}

\* the statuses of the universe whose last listing group has the name
LastListedIn(groupName) ==
    {id \in Universe :
        LET listing == ListingGroups(id) IN
        /\ listing # {}
        /\ statusGroups.items[CHOOSE k \in listing :
                                  \A j \in listing : j <= k].name = groupName}

\* C24, as the code has it: a status listed in two or more groups is counted
\* by the rollups by group in one group only, the last group of statusGroups
\* that lists it: the count of a group in the distribution is the number of
\* issues in the statuses it is the last to list, and its total in the time
\* in status is the sum of the totals of these statuses.
C24_LastGroupCounts ==
    (pc = "done" /\ result.outcome = "result") =>
        /\ \A n \in 1..Len(result.value.distribution.byGroup) :
               LET row == result.value.distribution.byGroup[n] IN
               row.count = CurrentlyIn(LastListedIn(row.name))
        /\ \A n \in 1..Len(result.value.timeInStatus.byGroup) :
               LET row == result.value.timeInStatus.byGroup[n] IN
               row.totalMs = SumPositiveMs(LastListedIn(row.groupName))

\* an issue is in a status that two groups list, with time spent in it: the
\* first of the groups counts nothing, the last counts the issue and the time
C24_Witness ==
    /\ pc = "done" /\ result.outcome = "result"
    /\ Len(result.value.distribution.byGroup) = 2
    /\ \E id \in Universe :
          /\ id \in ListedIn(result.value.distribution.byGroup[1].name)
          /\ id \in ListedIn(result.value.distribution.byGroup[2].name)
          /\ CurrentlyIn({id}) > 0
          /\ PositiveMs(id) > 0
          /\ result.value.distribution.byGroup[1].count = 0
          /\ result.value.distribution.byGroup[2].count >= CurrentlyIn({id})
          /\ result.value.timeInStatus.byGroup[1].totalMs = 0
          /\ result.value.timeInStatus.byGroup[2].totalMs >= PositiveMs(id)

-----------------------------------------------------------------------------
(* Properties of the rows of processCFD *)

\* the sum of the counters of a row
SumGroupCounts(groups) ==
    LET sum[n \in 0..Len(groups)] == IF n = 0 THEN 0 ELSE sum[n - 1] + groups[n].value
    IN  sum[Len(groups)]

\* C29: in every row of the diagram each built timeline is counted in at most
\* one group, so the counts of a row sum to at most the number of built
\* timelines, and every group of groupOrder has a counter, possibly 0, in
\* every row.
C29_CfdRowSums ==
    (pc = "done" /\ result.outcome = "result") =>
        LET timelines == Timelines
            groupOrder == GroupOrder
            statusToGroup == StatusToGroup
        IN  \A n \in 1..Len(result.value.cfdData) :
                LET row == result.value.cfdData[n] IN
                /\ SumGroupCounts(row.groups) <= Len(timelines)
                /\ \A g \in 1..Len(groupOrder) :
                       /\ MapHas(row.groups, groupOrder[g])
                       /\ MapGet(row.groups, groupOrder[g]) \in 0..Len(timelines)
                /\ \A t \in 1..Len(timelines) :
                       LET k == MostRecent(timelines[t].timeline, row.date) IN
                       Cardinality({g \in 1..Len(row.groups) :
                                       /\ k # 0
                                       /\ MapHas(statusToGroup, timelines[t].timeline[k].statusId)
                                       /\ MapGet(statusToGroup, timelines[t].timeline[k].statusId)
                                              = row.groups[g].key}) <= 1

\* a row that counts every built timeline, two of them, in one group and
\* has a counter of 0 for another group, the status of the timelines being
\* listed in both groups
C29_Witness ==
    /\ pc = "done"
    /\ result.outcome = "result"
    /\ Len(Timelines) = 2
    /\ Len(GroupOrder) = 2
    /\ \E n \in 1..Len(result.value.cfdData) :
           LET row == result.value.cfdData[n] IN
           /\ SumGroupCounts(row.groups) = 2
           /\ \E g \in 1..Len(row.groups) : row.groups[g].value = 0
           /\ \E t \in 1..2 :
                  LET k == MostRecent(Timelines[t].timeline, row.date) IN
                  /\ k # 0
                  /\ \A g \in 1..Len(GroupOrder) :
                         Timelines[t].timeline[k].statusId \in ListedIn(GroupOrder[g])

-----------------------------------------------------------------------------
(* Properties of the degradation per issue *)

\* the issues of the call for which a timeline can be built
Buildable ==
    SelectSeq(issues.items,
              LAMBDA i : buildIssueTimelineByStatus(
                             i, StatusMasterMap(allStatuses.items)).ok)

\* the call on the buildable issues only
CleanCall ==
    processMetrics(JsArray(Buildable), statusGroups, startDate, endDate,
                   cycleStartConfig, cycleEndConfig, triageConfig,
                   allStatuses, now, timeZone)

\* the issue list mixes issues with a timeline and issues without one
Mixed ==
    /\ issues.isArray
    /\ LET buildable == Buildable IN
       buildable # <<>> /\ Len(buildable) < Len(issues.items)

\* C25: a malformed issue never aborts the batch: when the call on the
\* issues whose timelines can be built returns a result, so does the call
\* on the list that mixes them with issues without a parseable creation
\* date, without a resolvable initial status or with unknown status ids,
\* and the time in status, the cycle time, the throughput, the CFD and the
\* support metrics of the two calls are equal.
C25_MalformedIssuesSkipped ==
    (pc = "done" /\ Mixed) =>
        LET clean == CleanCall IN
        clean.outcome = "result" =>
            /\ result.outcome = "result"
            /\ result.value.timeInStatus = clean.value.timeInStatus
            /\ result.value.cycleTimeData = clean.value.cycleTimeData
            /\ result.value.throughputData = clean.value.throughputData
            /\ result.value.cfdData = clean.value.cfdData
            /\ result.value.supportMetrics = clean.value.supportMetrics

\* an issue whose creation date does not parse, next to an issue that
\* completes a cycle
C25_Witness ==
    /\ pc = "done" /\ Mixed /\ CleanCall.outcome = "result"
    /\ \E k \in 1..Len(issues.items) :
          issues.items[k].created # NULL /\ ParseDate(issues.items[k].created) = NaN
    /\ result.outcome = "result"
    /\ result.value.cycleTimeData.durations # <<>>
    /\ Len(result.value.cfdData) > 0

-----------------------------------------------------------------------------
(* The calls of getDateRange *)

\* the date strings of a call: the days of the windows, the days around the
\* safety break, and a string that is no date
DateArguments == {"garbage"} \cup {DayString(d) : d \in Days \cup FarDays}

\* the variables of the other functions, which are not called
OnlyDateRangeCall ==
    /\ issue = NoIssue
    /\ statusMasterMap = <<>>
    /\ built = NullTimeline
    /\ config = NoConfig
    /\ statusGroups = JsArray(<<>>)
    /\ resolved = NoResolved
    /\ issues = NotAnArray
    /\ cycleStartConfig = NoConfig
    /\ cycleEndConfig = NoConfig
    /\ triageConfig = NoConfig
    /\ allStatuses = NotAnArray
    /\ now = 0
    /\ NoStatsCall
    /\ calls = <<>>

InitDateRange ==
    /\ pc = "call"
    /\ OnlyDateRangeCall
    /\ startDate \in DateArguments
    /\ endDate \in DateArguments
    /\ timeZone \in TimeZones
    /\ result = NoResult

GetDateRange ==
    /\ pc = "call"
    /\ result' = [outcome |-> "result",
                  value |-> getDateRange(startDate, endDate, timeZone)]
    /\ pc' = "done"
    /\ UNCHANGED <<issue, statusMasterMap, built, config, statusGroups, resolved,
                   issues, startDate, endDate, cycleStartConfig, cycleEndConfig,
                   triageConfig, allStatuses, now, timeZone, statsVars, calls>>

NextDateRange == GetDateRange

SpecDateRange == InitDateRange /\ [][NextDateRange]_vars

-----------------------------------------------------------------------------
(* Properties of getDateRange *)

\* the timeline of an issue that is open from the start of day 0
OpenTimeline == <<[key |-> "K", timeline |-> <<[statusId |-> "1", timestamp |-> 0]>>]>>

\* C16: for a valid range of at most 1000 calendar days getDateRange returns
\* every day of the inclusive range, in order; for a longer range, a
\* reversed range or a date that does not parse it returns the empty list,
\* and then the throughput and the CFD of the range are empty; the loop ends
\* after at most 1000 days in the list.
C16_DateRangeCap ==
    (pc = "done") =>
        /\ Len(WindowDays) <= MaxRangeDays => result.value = WindowDays
        /\ Len(WindowDays) > MaxRangeDays => result.value = <<>>
        /\ Len(result.value) <= MaxRangeDays
        /\ WindowDays # <<>> =>
              WhileLoop(ParseDay(startDate), ParseDay(endDate), timeZone).left
        /\ (WindowDays = <<>> \/ Len(WindowDays) > MaxRangeDays) =>
              /\ processThroughput(OpenTimeline, Selector("status", "1"),
                                   startDate, endDate, JsArray(<<>>),
                                   StatusMasterMap(TwoStatuses),
                                   timeZone) = Returned(<<>>)
              /\ processCFD(OpenTimeline, <<"G">>, <<[key |-> "1", value |-> "G"]>>,
                            startDate, endDate, timeZone) = <<>>

-----------------------------------------------------------------------------
(* A session: processMetrics called again and again *)

MaxCalls == 3       \* calls per session

\* an issue whose changelog lists a later change before an earlier one
UnorderedIssue ==
    TimelineIssue(<<At(0, 0), "2">>, TRUE,
                  <<History(At(2, 0), <<StatusItem("1", "2")>>),
                    History(At(1, 0), <<StatusItem("2", "1")>>)>>)

\* the issue lists and the end selectors of the calls of a session
SessionIssueLists ==
    { <<MetricIssues[1]>>, <<MetricIssues[2], MetricIssues[7]>>, <<UnorderedIssue>> }
SessionEndSelectors == {Selector("status", "2"), Selector("status", "1")}

\* the arguments of the call of the state
Arguments ==
    [issues |-> issues, statusGroups |-> statusGroups,
     startDate |-> startDate, endDate |-> endDate,
     cycleStartConfig |-> cycleStartConfig, cycleEndConfig |-> cycleEndConfig,
     triageConfig |-> triageConfig, allStatuses |-> allStatuses]

\* processMetrics on the issues of this call and of all the earlier calls
\* of the session
SessionCallAccumulating(arguments, nowDate, zone, earlier) ==
    LET kept[n \in 0..Len(earlier)] ==
            IF n = 0 THEN <<>> ELSE kept[n - 1] \o earlier[n].arguments.issues.items
    IN  processMetrics(JsArray(kept[Len(earlier)] \o arguments.issues.items),
                       arguments.statusGroups, arguments.startDate, arguments.endDate,
                       arguments.cycleStartConfig, arguments.cycleEndConfig,
                       arguments.triageConfig, arguments.allStatuses, nowDate, zone)

\* a call of the session: the module has no variable outside its functions,
\* so the call reads its arguments, the clock and the time zone, and
\* nothing of the earlier calls
SessionCall(arguments, nowDate, zone, earlier) ==
    processMetrics(arguments.issues, arguments.statusGroups,
                   arguments.startDate, arguments.endDate,
                   arguments.cycleStartConfig, arguments.cycleEndConfig,
                   arguments.triageConfig, arguments.allStatuses, nowDate, zone)

\* the histories of an issue put in the order of their dates
HistoriesSortedInPlace(histories) ==
    LET insert(sorted, h) ==
            LET before == SelectSeq(sorted, LAMBDA x : ParseDate(x.created)
                                                           <= ParseDate(h.created))
                after == SelectSeq(sorted, LAMBDA x : ParseDate(x.created)
                                                          > ParseDate(h.created))
            IN  before \o <<h>> \o after
        sort[n \in 0..Len(histories)] ==
            IF n = 0 THEN <<>> ELSE insert(sort[n - 1], histories[n])
    IN  sort[Len(histories)]

\* the histories of an issue after the call: flatMap, filter and map build
\* new arrays, and sort orders the array flatMap built
HistoriesAfterCall(histories) == histories

\* the issues after the call
IssuesAfterCall(iss) ==
    IF iss.isArray
    THEN [iss EXCEPT !.items =
              [n \in 1..Len(iss.items) |->
                  [iss.items[n] EXCEPT !.histories = HistoriesAfterCall(@)]]]
    ELSE iss

InitSession ==
    /\ pc = "call"
    /\ issue = NoIssue
    /\ statusMasterMap = <<>>
    /\ built = NullTimeline
    /\ config = NoConfig
    /\ resolved = NoResolved
    /\ \E l \in SessionIssueLists, ce \in SessionEndSelectors :
          MetricsCall(JsArray(l), JsArray(TwoGroups), DayString(0), DayString(MaxTime),
                      Selector("status", "1"), ce, Selector("status", "1"),
                      JsArray(TwoStatuses), NoClockChange)
    /\ now = MaxTime * TicksPerDay
    /\ result = NoResult
    /\ NoStatsCall
    /\ calls = <<>>

\* processMetrics runs on the arguments of the state
CallProcessMetrics ==
    /\ pc = "call"
    /\ result' = SessionCall(Arguments, now, timeZone, calls)
    /\ calls' = Append(calls, [arguments |-> Arguments, now |-> now,
                               timeZone |-> timeZone, result |-> result'])
    /\ issues' = IssuesAfterCall(issues)
    /\ pc' = "done"
    /\ UNCHANGED <<issue, statusMasterMap, built, config, statusGroups, resolved,
                   startDate, endDate, cycleStartConfig, cycleEndConfig,
                   triageConfig, allStatuses, now, timeZone, statsVars>>

\* the caller prepares the next call, at the same instant or later
PrepareCall ==
    /\ pc = "done"
    /\ Len(calls) < MaxCalls
    /\ issues' \in {JsArray(l) : l \in SessionIssueLists} \cup {NotAnArray}
    /\ cycleEndConfig' \in SessionEndSelectors
    /\ now' \in {now, now + 1}
    /\ result' = NoResult
    /\ pc' = "call"
    /\ UNCHANGED <<issue, statusMasterMap, built, config, statusGroups, resolved,
                   startDate, endDate, cycleStartConfig, triageConfig, allStatuses,
                   timeZone, statsVars, calls>>

NextSession == CallProcessMetrics \/ PrepareCall

SpecSession == InitSession /\ [][NextSession]_vars

-----------------------------------------------------------------------------
(* Properties of the session *)

-----------------------------------------------------------------------------
(* The numbers of JavaScript: IEEE 754 double precision *)

\* A double that is not negative is 0 or m * 2^(e - 52) with a significand m
\* of MantissaBits bits, written as the sequence of its bits, the first
\* (most significant) being 1.  DZero has no bits.  Every operation gives
\* the representable number nearest to the exact result, the one with the
\* even significand when two are equally near.
MantissaBits == 53

DZero == [e |-> 0, m |-> <<>>]
IsDZero(x) == x.m = <<>>

Zeros(n) == [k \in 1..n |-> 0]

\* the bits plus one; the empty sequence when every bit is 1
Increment(bits) ==
    LET zeros == {k \in 1..Len(bits) : bits[k] = 0} IN
    IF zeros = {} THEN <<>>
    ELSE LET last == CHOOSE k \in zeros : \A j \in zeros : j <= k IN
         [k \in 1..Len(bits) |-> IF k < last THEN bits[k] ELSE IF k = last THEN 1 ELSE 0]

\* the double nearest to (bits as a binary number with its first bit, a 1,
\* at 2^e), where sticky tells that the exact number has more non-zero bits
RoundToDouble(bits, e, sticky) ==
    LET padded == bits \o Zeros(MantissaBits + 1)
        m == SubSeq(padded, 1, MantissaBits)
        half == padded[MantissaBits + 1] = 1
        more == sticky \/ \E k \in (MantissaBits + 2)..Len(padded) : padded[k] = 1
        up == half /\ (more \/ m[MantissaBits] = 1)
    IN  IF ~up THEN [e |-> e, m |-> m]
        ELSE IF Increment(m) = <<>>
             THEN [e |-> e + 1, m |-> <<1>> \o Zeros(MantissaBits - 1)]
             ELSE [e |-> e, m |-> Increment(m)]

RECURSIVE Log2Floor(_, _)
\* the e with b * 2^e <= a < b * 2^(e + 1), for positive whole numbers
Log2Floor(a, b) ==
    IF a < b THEN Log2Floor(2 * a, b) - 1
    ELSE IF a >= 2 * b THEN Log2Floor(a, 2 * b) + 1
    ELSE 0

Pow2(n) == LET p[k \in 0..n] == IF k = 0 THEN 1 ELSE 2 * p[k - 1] IN p[n]

RECURSIVE QuotientBits(_, _, _)
\* long division of rem / den, rem < den < 2^28, three bits of the quotient
\* at a time: the bits after the binary point and the last remainder
QuotientBits(rem, den, groups) ==
    IF groups = 0 THEN [bits |-> <<>>, rem |-> rem]
    ELSE LET q == (8 * rem) \div den
             rest == QuotientBits((8 * rem) % den, den, groups - 1)
         IN  [bits |-> <<(q \div 4) % 2, (q \div 2) % 2, q % 2>> \o rest.bits,
              rem |-> rest.rem]

\* a / b on doubles that are positive whole numbers (below 2^28)
DoubleQuotient(a, b) ==
    LET e == Log2Floor(a, b)
        num == IF e < 0 THEN a * Pow2(-e) ELSE a
        den == IF e > 0 THEN b * Pow2(e) ELSE b
        groups == (MantissaBits + 3) \div 3   \* three bits more than the significand
        fraction == QuotientBits(num - den, den, groups)
    IN  RoundToDouble(<<1>> \o fraction.bits, e, fraction.rem # 0)

\* the sum of two bit sequences of one length, one bit longer
BinaryAdd(x, y) ==
    LET n == Len(x)
        \* the carry out of the bits k..n
        carry(k) ==
            \E j \in k..n :
                /\ x[j] + y[j] = 2
                /\ \A i \in k..(j - 1) : x[i] + y[i] = 1
    IN  [k \in 1..(n + 1) |->
            IF k = 1 THEN (IF carry(1) THEN 1 ELSE 0)
            ELSE (x[k - 1] + y[k - 1] + (IF carry(k) THEN 1 ELSE 0)) % 2]

\* x + y on doubles
DoubleAdd(x, y) ==
    IF IsDZero(x) THEN y
    ELSE IF IsDZero(y) THEN x
    ELSE LET hi == IF x.e >= y.e THEN x ELSE y
             lo == IF x.e >= y.e THEN y ELSE x
             shift == hi.e - lo.e
         IN  IF shift > MantissaBits + 3 THEN hi
             ELSE LET sum == BinaryAdd(hi.m \o Zeros(shift), Zeros(shift) \o lo.m) IN
                  IF sum[1] = 1 THEN RoundToDouble(sum, hi.e + 1, FALSE)
                  ELSE RoundToDouble(Tail(sum), hi.e, FALSE)

RECURSIVE DivideBits(_, _, _)
\* long division of a binary number by n < 2^8, a byte at a time: the bits of
\* the quotient, as many as the number has, and the last remainder
DivideBits(bits, n, rem) ==
    IF bits = <<>> THEN [bits |-> <<>>, rem |-> rem]
    ELSE LET weights == <<128, 64, 32, 16, 8, 4, 2, 1>>
             byte == bits[1] * 128 + bits[2] * 64 + bits[3] * 32 + bits[4] * 16
                     + bits[5] * 8 + bits[6] * 4 + bits[7] * 2 + bits[8]
             r == 256 * rem + byte
             q == r \div n
             rest == DivideBits(SubSeq(bits, 9, Len(bits)), n, r % n)
         IN  [bits |-> [k \in 1..8 |-> (q \div weights[k]) % 2] \o rest.bits,
              rem |-> rest.rem]

\* x / n on doubles, n a small positive whole number
DoubleDivide(x, n) ==
    IF IsDZero(x) THEN DZero
    ELSE LET dividend == x.m \o Zeros(64 - MantissaBits)   \* eight bytes
             quotient == DivideBits(dividend, n, 0)
             first == CHOOSE k \in 1..Len(dividend) :
                          quotient.bits[k] = 1 /\ \A j \in 1..(k - 1) : quotient.bits[j] = 0
         IN  RoundToDouble(SubSeq(quotient.bits, first, Len(dividend)),
                           x.e - (first - 1), quotient.rem # 0)

\* x <= y on doubles
DoubleLeq(x, y) ==
    IF IsDZero(x) THEN TRUE
    ELSE IF IsDZero(y) THEN FALSE
    ELSE IF x.e # y.e THEN x.e < y.e
    ELSE \/ x.m = y.m
         \/ \E k \in 1..MantissaBits :
               /\ x.m[k] < y.m[k]
               /\ \A j \in 1..(k - 1) : x.m[j] = y.m[j]

\* a.reduce((a, b) => a + b, 0) on doubles
DoubleSum(numbers) ==
    LET sum[n \in 0..Len(numbers)] ==
            IF n = 0 THEN DZero ELSE DoubleAdd(sum[n - 1], numbers[n])
    IN  sum[Len(numbers)]

\* the double after x, and the double before it
NextUp(x) ==
    IF IsDZero(x) THEN x
    ELSE IF Increment(x.m) = <<>>
         THEN [e |-> x.e + 1, m |-> <<1>> \o Zeros(MantissaBits - 1)]
         ELSE [e |-> x.e, m |-> Increment(x.m)]

NextDown(x) ==
    IF IsDZero(x) THEN x
    ELSE IF x.m = <<1>> \o Zeros(MantissaBits - 1)
         THEN [e |-> x.e - 1, m |-> [k \in 1..MantissaBits |-> 1]]
         ELSE LET ones == {k \in 1..MantissaBits : x.m[k] = 1}
                  last == CHOOSE k \in ones : \A j \in ones : j <= k
              IN  [e |-> x.e,
                   m |-> [k \in 1..MantissaBits |->
                             IF k < last THEN x.m[k] ELSE IF k = last THEN 0 ELSE 1]]

StepsUp(x, n) == LET up[k \in 0..n] == IF k = 0 THEN x ELSE NextUp(up[k - 1]) IN up[n]
StepsDown(x, n) == LET down[k \in 0..n] == IF k = 0 THEN x ELSE NextDown(down[k - 1]) IN down[n]

-----------------------------------------------------------------------------
(* The statistics of processCycleTime, in doubles *)

MsPerDay == 1000 * 60 * 60 * 24

\* getDuration(startEvent.timestamp, endEvent.timestamp, 'days') on the
\* milliseconds between the two timestamps
DoubleDuration(diffMs) ==
    IF diffMs <= 0 THEN DZero ELSE DoubleQuotient(diffMs, MsPerDay)

\* allIssueTimelines.forEach(... if (duration >= 0) durationsDays.push(duration))
PushedDurations(msList) ==
    LET found == SelectSeq(msList, LAMBDA cycle : cycle.found) IN
    [k \in 1..Len(found) |-> DoubleDuration(found[k].ms)]

DoubleKeepOrder(arr) == arr
\* durationsDays.sort((a, b) => a - b) on doubles
DoubleSort(arr) ==
    LET insert(sorted, x) ==
            LET before == SelectSeq(sorted, LAMBDA y : DoubleLeq(y, x))
                after == SelectSeq(sorted, LAMBDA y : ~DoubleLeq(y, x))
            IN  before \o <<x>> \o after
        sort[n \in 0..Len(arr)] == IF n = 0 THEN <<>> ELSE insert(sort[n - 1], arr[n])
    IN  sort[Len(arr)]

\* processCycleTime from the collection of the durations on, the histogram
\* left out (it is the subject of the specification of the histogram)
DoubleCycleTime(msList) ==
    LET pushed == PushedDurations(msList) IN
    IF Len(pushed) = 0
    THEN [durations |-> <<>>, avg |-> DZero, p50 |-> DZero, p85 |-> DZero]
    ELSE LET sortedDays == DoubleSort(pushed) IN
         [durations |-> sortedDays,
          avg |-> DoubleDivide(DoubleSum(sortedDays), Len(sortedDays)),
          p50 |-> getPercentile(sortedDays, 50),
          p85 |-> getPercentile(sortedDays, 85)]

\* milliseconds between a start event and the end event found after it
MsDifferences == {0, 3600000, 8640000, 25920000, 86400000, 259200000}

NoCycle == [found |-> FALSE, ms |-> 0]
Cycle(ms) == [found |-> TRUE, ms |-> ms]

MsLists ==
    UNION {[1..n -> {NoCycle} \cup {Cycle(ms) : ms \in MsDifferences}] : n \in 0..MaxDurations}

InitCycleTime ==
    /\ pc = "call"
    /\ OnlyStatsCall
    /\ calls = <<>>
    /\ sortedArray = <<>>
    /\ percentile = 0
    /\ durationsDays = <<>>
    /\ cycleMs \in MsLists
    /\ result = NoResult

CycleTime ==
    /\ pc = "call"
    /\ result' = [outcome |-> "result", value |-> DoubleCycleTime(cycleMs)]
    /\ pc' = "done"
    /\ UNCHANGED <<issue, statusMasterMap, built, config, statusGroups, resolved,
                   issues, startDate, endDate, cycleStartConfig, cycleEndConfig,
                   triageConfig, allStatuses, now, timeZone, statsVars, calls>>

NextCycleTime == CycleTime

SpecCycleTime == InitCycleTime /\ [][NextCycleTime]_vars

-----------------------------------------------------------------------------
(* Properties of the statistics of processCycleTime *)

CycleTimeDone == pc = "done" /\ result.outcome = "result"

\* the invariants of a result that do not involve avg
OrderedDurations ==
    LET d == result.value.durations IN
    /\ \A j, k \in 1..Len(d) : j <= k => DoubleLeq(d[j], d[k])
    /\ \A k \in 1..Len(d) : DoubleLeq(DZero, d[k])
    /\ Len(d) <= Len(cycleMs)
    /\ Len(d) > 0 =>
           /\ DoubleLeq(d[1], result.value.p50)
           /\ DoubleLeq(result.value.p50, result.value.p85)
           /\ DoubleLeq(result.value.p85, d[Len(d)])

\* C28 as stated: durations is sorted ascending, every duration is >= 0,
\* there are at most as many durations as built timelines,
\* durations[0] <= p50 <= p85 <= the last duration, and
\* durations[0] <= avg <= the last duration.
C28_AvgBetweenExtremes ==
    CycleTimeDone =>
        LET d == result.value.durations IN
        /\ OrderedDurations
        /\ Len(d) > 0 =>
               /\ DoubleLeq(d[1], result.value.avg)
               /\ DoubleLeq(result.value.avg, d[Len(d)])

\* C28: durations is sorted ascending, every duration is >= 0, there are at
\* most as many durations as built timelines, durations[0] <= p50 <= p85 <=
\* the last duration, and avg, the mean as double-precision arithmetic gives
\* it, lies between durations[0] and the last duration up to rounding: it is
\* at most as many doubles below the first or above the last as there are
\* durations.
C28_AvgWithinRounding ==
    CycleTimeDone =>
        LET d == result.value.durations IN
        /\ OrderedDurations
        /\ Len(d) > 0 =>
               /\ DoubleLeq(StepsDown(d[1], Len(d)), result.value.avg)
               /\ DoubleLeq(result.value.avg, StepsUp(d[Len(d)], Len(d)))

\* three cycles of 0.1 days: avg is 0.10000000000000002, above every duration
C28_Witness ==
    /\ CycleTimeDone
    /\ cycleMs = [k \in 1..3 |-> Cycle(8640000)]
    /\ result.value.durations = [k \in 1..3 |-> DoubleQuotient(8640000, MsPerDay)]
    /\ result.value.avg = NextUp(DoubleQuotient(8640000, MsPerDay))

=============================================================================
